---- MODULE Spec2Model ----
(***************************************************************************)
(* Model of simlib's AVL dictionary (avl_dict.hh): the pool allocator, the *)
(* AVL engine working on handles into the pool, and the four concrete      *)
(* containers (Set, Multiset, Map, Multimap).                              *)
(***************************************************************************)
EXTENDS Integers, Sequences, FiniteSets, TLC

VARIABLES dict,     \* the dictionary object: pool, capacity, head, root, size_
          pre,      \* the dictionary object as it was when the call began
          last,     \* the call that has just returned: name, arguments, results
          kind,     \* which concrete container the object is
          trivial,  \* whether Node is trivially destructible
          other,    \* a second dictionary object, once a copy has been made
          bits,     \* the width of size_type, the type of the handles
          scenario  \* the values a scripted caller inserts, in order

vars == <<dict, pre, last, kind, trivial, other, bits, scenario>>

---------------------------------------------------------------------------
(* Bounds of the model *)

MaxKey == 4
MaxVal == 1
MaxSize == 4
MaxSizeWide == 3
IndexBits == 4

Keys == 1..MaxKey
Values == 0..MaxVal

---------------------------------------------------------------------------
(* AVLNodeBase, the slots of the pool *)

L == 0
R == 1
nil == 0

Kinds == {"Set", "Multiset", "Map", "Multimap"}
IsMapKind(k) == k \in {"Map", "Multimap"}

\* union Elem holding ptr: a free slot, linking to the next free one
FreeSlot(next) ==
    [free |-> TRUE, ptr |-> next, kid |-> <<nil, nil>>, h |-> 0,
     key |-> 0, val |-> 0]

\* union Elem holding val: a constructed node
Node(key, val, left_kid, right_kid, height) ==
    [free |-> FALSE, ptr |-> 0, kid |-> <<left_kid, right_kid>>,
     h |-> height, key |-> key, val |-> val]

Max(a, b) == IF a >= b THEN a ELSE b

\* std::less<> on the keys
compare(a, b) == a < b

max_capacity == 2^bits - 1

Kid(d, x, dir) == d.pool[x].kid[dir + 1]
SetKid(d, x, dir, v) == [d EXCEPT !.pool[x].kid[dir + 1] = v]
H(d, x) == d.pool[x].h

---------------------------------------------------------------------------
(* AVLPoolAllocator *)

\* AVLPoolAllocator(reserve_size) followed by nil = pool.allocate() and the
\* body of AVLDictionary's constructor
NewDictionary(reserve_n) ==
    [pool |-> [i \in 0..(Max(1, reserve_n) - 1) |->
                 IF i = nil THEN Node(0, 0, nil, nil, 0)
                 ELSE FreeSlot(i + 1)],
     capacity |-> Max(1, reserve_n),
     head |-> 1,
     root |-> nil,
     size |-> 0,
     failed |-> FALSE]

\* The capacity allocate() grows to
GrownCapacity(capacity) ==
    IF capacity < max_capacity \div 2
    THEN (capacity * 2) % (2^bits)
    ELSE max_capacity

\* allocate() that grows the arena by one cell only
allocate_by_one(d) ==
    IF d.head = d.capacity
    THEN IF d.capacity = max_capacity
         THEN [ok |-> FALSE, d |-> d, res |-> nil]
         ELSE [ok |-> TRUE, res |-> d.head,
               d |-> [d EXCEPT
                        !.pool = [i \in 0..d.capacity |->
                                    IF i < d.capacity THEN d.pool[i]
                                    ELSE FreeSlot(i + 1)],
                        !.capacity = d.capacity + 1,
                        !.head = d.head + 1]]
    ELSE [ok |-> TRUE, res |-> d.head,
          d |-> [d EXCEPT !.head = d.pool[d.head].ptr]]

\* allocate(): ok = FALSE is THROW("The AVLPool is full")
allocate(d) ==
    LET grown(new_capacity) ==
            [ok |-> TRUE, res |-> d.head,
             d |-> [d EXCEPT
                      !.pool = [i \in 0..(new_capacity - 1) |->
                                  IF i < d.capacity THEN d.pool[i]
                                  ELSE FreeSlot(i + 1)],
                      !.capacity = new_capacity,
                      !.head = d.head + 1]]
    IN  IF d.head = d.capacity
        THEN IF d.capacity = max_capacity
             THEN [ok |-> FALSE, d |-> d, res |-> nil]
             ELSE grown(GrownCapacity(d.capacity))
        ELSE [ok |-> TRUE, res |-> d.head,
              d |-> [d EXCEPT !.head = d.pool[d.head].ptr]]

\* destruct_and_deallocate() that links the slot to the end marker
destruct_and_deallocate_last(d, n) ==
    [d EXCEPT !.pool[n] = FreeSlot(d.capacity), !.head = n]

destruct_and_deallocate(d, n) ==
    [d EXCEPT !.pool[n] = FreeSlot(d.head), !.head = n]

\* allocate_node() that does not count the node
allocate_node_uncounted(d, key, val) ==
    LET construct(a) ==
            IF ~a.ok THEN a
            ELSE [ok |-> TRUE, res |-> a.res,
                  d |-> [a.d EXCEPT
                           !.pool[a.res] = Node(key, val, nil, nil, 0)]]
    IN  construct(allocate(d))

\* allocate_node(): the slot is taken and the node constructed in it
allocate_node(d, key, val) ==
    LET construct(a) ==
            IF ~a.ok THEN a
            ELSE [ok |-> TRUE, res |-> a.res,
                  d |-> [a.d EXCEPT
                           !.pool[a.res] = Node(key, val, nil, nil, 0),
                           !.size = a.d.size + 1]]
    IN  construct(allocate(d))

deallocate_node(d, x) ==
    LET counted(d1) == [d1 EXCEPT !.size = d1.size - 1]
    IN  counted(destruct_and_deallocate(d, x))

---------------------------------------------------------------------------
(* Rotations *)

seth(d, x) ==
    [d EXCEPT !.pool[x].h =
        (1 + Max(H(d, Kid(d, x, L)), H(d, Kid(d, x, R)))) % 256]

\* rotate(): [d, x] is the pool afterwards and the returned handle
rotate(d, x, dir) ==
    LET turn(res) ==
            [d |-> seth([d EXCEPT !.pool[x].kid[(1 - dir) + 1] =
                                      Kid(d, res, dir),
                                  !.pool[res].kid[dir + 1] = x], x),
             x |-> res]
    IN  turn(Kid(d, x, 1 - dir))

rotate_and_seth(d, x, dir) ==
    LET top(r) == [d |-> seth(r.d, r.x), x |-> r.x]
    IN  top(rotate(d, x, dir))

\* int division of C++ truncates towards zero
TruncDiv2(n) == IF n >= 0 THEN n \div 2 ELSE -((-n) \div 2)

BalanceOf(d, x) == TruncDiv2(H(d, Kid(d, x, L)) - H(d, Kid(d, x, R)))

\* The branch of rebalance_and_seth() that lifts aux_C above x and aux_B
DoubleRotation(d, x, aux_B, aux_C, dir) ==
    LET revdir == 1 - dir
        lift(d2) ==
            [d |-> seth([d2 EXCEPT !.pool[aux_C].kid[dir + 1] = x,
                                   !.pool[aux_C].kid[revdir + 1] = aux_B],
                        aux_C),
             x |-> aux_C]
        lower_B(d1) ==
            lift(seth(SetKid(d1, aux_B, dir, Kid(d1, aux_C, revdir)), aux_B))
    IN  lower_B(seth(SetKid(d, x, revdir, Kid(d, aux_C, dir)), x))

\* rebalance_and_seth that sets the height and never rotates
rebalance_and_seth_idle(d, x) == [d |-> seth(d, x), x |-> x]

\* rebalance_and_seth(): failed is the assertion -1 <= b and b <= 1
rebalance_and_seth(d, x) ==
    LET turn(b, dir, aux_B) ==
            IF H(d, Kid(d, aux_B, R)) - H(d, Kid(d, aux_B, L)) = b
            THEN DoubleRotation(d, x, aux_B, Kid(d, aux_B, dir), dir)
            ELSE rotate_and_seth(d, x, dir)
        balance(b) ==
            IF b < -1 \/ b > 1
            THEN [d |-> [d EXCEPT !.failed = TRUE], x |-> x]
            ELSE IF b # 0
            THEN turn(b, (b + 1) \div 2, Kid(d, x, 1 - ((b + 1) \div 2)))
            ELSE [d |-> seth(d, x), x |-> x]
    IN  balance(BalanceOf(d, x))

---------------------------------------------------------------------------
(* AVLDictionary: insertion *)

Dir(b) == IF b THEN R ELSE L

KeyOf(d, x) == d.pool[x].key

\* DirOf with the arguments of compare the other way round
DirOf_swapped(d, x, key) == Dir(compare(key, KeyOf(d, x)))

\* bool dir = compare(pool[x].key(), key)
DirOf(d, x, key) == Dir(compare(KeyOf(d, x), key))

\* Match without the first of its two comparisons
Match_loose(d, x, key) == ~compare(key, KeyOf(d, x))

\* not dir and not compare(key, pool[x].key())
Match(d, x, key) == ~compare(KeyOf(d, x), key) /\ ~compare(key, KeyOf(d, x))

\* x = rebalance_and_seth(x) after the recursive call r has written the
\* reference pool[x].kid[dir]; res is handed through
Ascend(r, x, dir) ==
    LET up(rb) == [d |-> rb.d, x |-> rb.x, res |-> r.res]
    IN  up(rebalance_and_seth(SetKid(r.d, x, dir, r.x), x))

\* insert(size_type& x, size_type inserted): [d, x] is the pool afterwards
\* and the value left in the reference x
RECURSIVE insert_at(_, _, _)
insert_at(d, x, inserted) ==
    LET up(r) == rebalance_and_seth(
                     SetKid(r.d, x, DirOf(d, x, KeyOf(d, inserted)), r.x), x)
    IN  IF x = nil
        THEN [d |-> d, x |-> inserted]
        ELSE up(insert_at(d, Kid(d, x, DirOf(d, x, KeyOf(d, inserted))),
                          inserted))

\* insert(size_type node_id)
insert(d, node_id) ==
    LET done(r) == [r.d EXCEPT !.root = r.x]
    IN  done(insert_at(d, d.root, node_id))

RECURSIVE insert_if_not_exists_at(_, _, _)
insert_if_not_exists_at(d, x, inserted) ==
    IF x = nil
    THEN [d |-> d, x |-> inserted, res |-> inserted]
    ELSE IF Match(d, x, KeyOf(d, inserted))
    THEN [d |-> d, x |-> x, res |-> x]
    ELSE Ascend(insert_if_not_exists_at(
                    d, Kid(d, x, DirOf(d, x, KeyOf(d, inserted))), inserted),
                x, DirOf(d, x, KeyOf(d, inserted)))

\* insert_if_not_exists(size_type node_id)
insert_if_not_exists(d, node_id) ==
    LET done(r) == [d |-> [r.d EXCEPT !.root = r.x], res |-> r.res]
    IN  done(insert_if_not_exists_at(d, d.root, node_id))

\* emplace_if_not_exists_impl(x, key): x is taken by value; first is what
\* to replace x with, second the emplaced or found node; ok = FALSE when
\* the allocation threw
RECURSIVE emplace_if_not_exists_impl(_, _, _)
emplace_if_not_exists_impl(d, x, key) ==
    LET made(a) ==
            [ok |-> a.ok, d |-> a.d, first |-> a.res, second |-> a.res]
        balanced(rb, second) ==
            [ok |-> TRUE, d |-> rb.d, first |-> rb.x, second |-> second]
        up(p) ==
            IF ~p.ok
            THEN [ok |-> FALSE, d |-> d, first |-> x, second |-> nil]
            ELSE balanced(
                     rebalance_and_seth(
                         SetKid(p.d, x, DirOf(d, x, key), p.first), x),
                     p.second)
    IN  IF x = nil
        THEN made(allocate_node(d, key, 0))
        ELSE IF Match(d, x, key)
        THEN [ok |-> TRUE, d |-> d, first |-> x, second |-> x]
        ELSE up(emplace_if_not_exists_impl(
                    d, Kid(d, x, DirOf(d, x, key)), key))

emplace_if_not_exists(d, key) ==
    LET done(p) ==
            IF ~p.ok THEN [ok |-> FALSE, d |-> d, res |-> nil]
            ELSE [ok |-> TRUE, d |-> [p.d EXCEPT !.root = p.first],
                  res |-> p.second]
    IN  done(emplace_if_not_exists_impl(d, d.root, key))

RECURSIVE insert_or_replace_at(_, _, _)
insert_or_replace_at(d, x, inserted) ==
    IF x = nil
    THEN [d |-> d, x |-> inserted, res |-> TRUE]
    ELSE IF Match(d, x, KeyOf(d, inserted))
    THEN [d |-> deallocate_node(
                    [d EXCEPT !.pool[inserted].kid = d.pool[x].kid,
                              !.pool[inserted].h = d.pool[x].h], x),
          x |-> inserted, res |-> FALSE]
    ELSE Ascend(insert_or_replace_at(
                    d, Kid(d, x, DirOf(d, x, KeyOf(d, inserted))), inserted),
                x, DirOf(d, x, KeyOf(d, inserted)))

\* insert_or_replace that keeps the entry it finds and drops the new one
insert_or_replace_kept(d, node_id) ==
    LET done(r) ==
            IF r.res = node_id
            THEN [d |-> [r.d EXCEPT !.root = r.x], res |-> TRUE]
            ELSE [d |-> deallocate_node([r.d EXCEPT !.root = r.x], node_id),
                  res |-> FALSE]
    IN  done(insert_if_not_exists_at(d, d.root, node_id))

\* insert_or_replace(size_type node_id)
insert_or_replace(d, node_id) ==
    LET done(r) == [d |-> [r.d EXCEPT !.root = r.x], res |-> r.res]
    IN  done(insert_or_replace_at(d, d.root, node_id))

---------------------------------------------------------------------------
(* AVLDictionary: erasing *)

RECURSIVE pull_out_rightmost(_, _)
\* pull_out_rightmost that forgets the left kid of the node it pulls out
pull_out_rightmost_lossy(d, x) ==
    IF Kid(d, x, R) = nil
    THEN [d |-> d, x |-> nil, res |-> x]
    ELSE Ascend(pull_out_rightmost(d, Kid(d, x, R)), x, R)

pull_out_rightmost(d, x) ==
    IF Kid(d, x, R) = nil
    THEN [d |-> d, x |-> Kid(d, x, L), res |-> x]
    ELSE Ascend(pull_out_rightmost(d, Kid(d, x, R)), x, R)

\* The two SemiLambda::operator()(size_type node): erase destructs the
\* node, pull_out resets its kids and hands it out
to_ret_val(d, node, pulling) ==
    IF pulling
    THEN [d EXCEPT !.pool[node].kid = <<nil, nil>>]
    ELSE deallocate_node(d, node)

\* erase_impl(x, key, to_ret_val): res is the matched node, nil when
\* to_ret_val() was called without an argument
RECURSIVE erase_impl(_, _, _, _)
\* erase_impl that keeps the matched node in its place, moves the payload of
\* the rightmost node of the left subtree into it and frees that node
erase_impl_moving(d, x, key, pulling) ==
    LET matched(rb) == [d |-> rb.d, x |-> rb.x, res |-> x]
        lift_right(new_x) ==
            IF new_x # nil
            THEN matched(rebalance_and_seth(to_ret_val(d, x, pulling), new_x))
            ELSE [d |-> to_ret_val(d, x, pulling), x |-> new_x, res |-> x]
        overwrite(po) ==
            matched(rebalance_and_seth(
                to_ret_val([po.d EXCEPT
                              !.pool[x].key = po.d.pool[po.res].key,
                              !.pool[x].val = po.d.pool[po.res].val,
                              !.pool[x].kid = <<po.x, Kid(po.d, x, R)>>],
                           po.res, pulling),
                x))
    IN  IF x = nil
        THEN [d |-> d, x |-> x, res |-> nil]
        ELSE IF Match(d, x, key)
        THEN IF Kid(d, x, L) = nil
             THEN lift_right(Kid(d, x, R))
             ELSE overwrite(pull_out_rightmost(d, Kid(d, x, L)))
        ELSE Ascend(erase_impl(d, Kid(d, x, DirOf(d, x, key)), key, pulling),
                    x, DirOf(d, x, key))

erase_impl(d, x, key, pulling) ==
    LET matched(rb) == [d |-> rb.d, x |-> rb.x, res |-> x]
        \* pool[x].kid[L] == nil
        lift_right(new_x) ==
            IF new_x # nil
            THEN matched(rebalance_and_seth(to_ret_val(d, x, pulling), new_x))
            ELSE [d |-> to_ret_val(d, x, pulling), x |-> new_x, res |-> x]
        \* pulled replaces x in the tree structure
        replace(po) ==
            matched(rebalance_and_seth(
                to_ret_val([po.d EXCEPT
                              !.pool[po.res].kid = <<po.x, Kid(po.d, x, R)>>],
                           x, pulling),
                po.res))
    IN  IF x = nil
        THEN [d |-> d, x |-> x, res |-> nil]
        ELSE IF Match(d, x, key)
        THEN IF Kid(d, x, L) = nil
             THEN lift_right(Kid(d, x, R))
             ELSE replace(pull_out_rightmost(d, Kid(d, x, L)))
        ELSE Ascend(erase_impl(d, Kid(d, x, DirOf(d, x, key)), key, pulling),
                    x, DirOf(d, x, key))

\* erase(T&& key): res is the bool it returns
erase(d, key) ==
    LET done(r) == [d |-> [r.d EXCEPT !.root = r.x], res |-> r.res # nil]
    IN  done(erase_impl(d, d.root, key, FALSE))

\* pull_out that takes the node out and reports that it found none
pull_out_blind(d, key) ==
    LET done(r) == [d |-> [r.d EXCEPT !.root = r.x], res |-> nil]
    IN  done(erase_impl(d, d.root, key, TRUE))

\* pull_out(root, key): res is the handle of the pulled out node or nil
pull_out(d, key) ==
    LET done(r) == [d |-> [r.d EXCEPT !.root = r.x], res |-> r.res]
    IN  done(erase_impl(d, d.root, key, TRUE))

RECURSIVE delete_subtree(_, _, _)
delete_subtree(d, x, triv) ==
    IF triv THEN d
    ELSE IF x = nil THEN d
    ELSE deallocate_node(
             delete_subtree(delete_subtree(d, Kid(d, x, L), triv),
                            Kid(d, x, R), triv),
             x)

clear(d, triv) ==
    [delete_subtree(d, d.root, triv) EXCEPT !.root = nil]

---------------------------------------------------------------------------
(* AVLDictionary: traversal, filter and lookup *)

\* A condition or callback is given by the set of payloads it accepts
Accepts(cond, node) == <<node.key, node.val>> \in cond

\* for_each that goes on whatever the callback returns
RECURSIVE for_each_heedless(_, _, _)
for_each_heedless(d, x, cond) ==
    IF x = nil
    THEN [stop |-> FALSE, seen |-> <<>>]
    ELSE [stop |-> FALSE,
          seen |-> Append(for_each_heedless(d, Kid(d, x, L), cond).seen, x)
                   \o for_each_heedless(d, Kid(d, x, R), cond).seen]

\* for_each(x, processor) with filter's processor: seen lists the nodes the
\* condition was called on, stop tells whether the last of them made it stop
RECURSIVE for_each(_, _, _)
for_each(d, x, cond) ==
    LET right(l, r) ==
            [stop |-> r.stop, seen |-> Append(l.seen, x) \o r.seen]
        here(l) ==
            IF l.stop THEN l
            ELSE IF Accepts(cond, d.pool[x])
            THEN [stop |-> TRUE, seen |-> Append(l.seen, x)]
            ELSE right(l, for_each(d, Kid(d, x, R), cond))
    IN  IF x = nil
        THEN [stop |-> FALSE, seen |-> <<>>]
        ELSE here(for_each(d, Kid(d, x, L), cond))

RECURSIVE foreach_since_upper_bound(_, _, _, _)
foreach_since_upper_bound(d, x, key, cond) ==
    LET right(l, r) ==
            [stop |-> r.stop, seen |-> Append(l.seen, x) \o r.seen]
        here(l) ==
            IF l.stop THEN l
            ELSE IF Accepts(cond, d.pool[x])
            THEN [stop |-> TRUE, seen |-> Append(l.seen, x)]
            ELSE right(l, for_each(d, Kid(d, x, R), cond))
    IN  IF x = nil
        THEN [stop |-> FALSE, seen |-> <<>>]
        ELSE IF compare(key, KeyOf(d, x))
        THEN here(foreach_since_upper_bound(d, Kid(d, x, L), key, cond))
        ELSE foreach_since_upper_bound(d, Kid(d, x, R), key, cond)

\* The payloads of the nodes a traversal of d has called the condition on
Called(d, seen) ==
    [i \in 1..Len(seen) |-> <<d.pool[seen[i]].key, d.pool[seen[i]].val>>]

\* The while loop of filter(): scan is the traversal that has just ended,
\* calls the payloads the condition has been called on before it
RECURSIVE filter_loop(_, _, _, _)
\* The loop of filter() resuming each traversal at the least element
filter_loop_restarting(d, scan, cond, calls) ==
    LET resume(e, now) ==
            filter_loop(e.d, for_each(e.d, e.d.root, cond), cond, now)
        remove(key, now) == resume(erase(d, key), now)
    IN  IF ~scan.stop
        THEN [d |-> d, calls |-> calls \o Called(d, scan.seen)]
        ELSE remove(KeyOf(d, scan.seen[Len(scan.seen)]),
                    calls \o Called(d, scan.seen))

filter_loop(d, scan, cond, calls) ==
    LET resume(e, key, now) ==
            filter_loop(e.d,
                        foreach_since_upper_bound(e.d, e.d.root, key, cond),
                        cond, now)
        remove(key, now) == resume(erase(d, key), key, now)
    IN  IF ~scan.stop
        THEN [d |-> d, calls |-> calls \o Called(d, scan.seen)]
        ELSE remove(KeyOf(d, scan.seen[Len(scan.seen)]),
                    calls \o Called(d, scan.seen))

filter(d, cond) == filter_loop(d, for_each(d, d.root, cond), cond, <<>>)

\* find(key): the handle of the found node, nil for nullptr
RECURSIVE find_from(_, _, _)
find_from(d, x, key) ==
    IF x = nil THEN nil
    ELSE IF Match(d, x, key) THEN x
    ELSE find_from(d, Kid(d, x, DirOf(d, x, key)), key)

\* find that looks at the root only
find_root_only(d, key) ==
    IF d.root # nil /\ Match(d, d.root, key) THEN d.root ELSE nil

find(d, key) == find_from(d, d.root, key)

---------------------------------------------------------------------------
(* The concrete containers *)

\* What a call reports: ret and ret2 are the bools returned, node the
\* handle of the payload returned, threw whether the call ended in the
\* pool-full error, calls the payloads a condition was called on
Outcome(d, ret, ret2, node, threw, calls) ==
    [d |-> d, ret |-> ret, ret2 |-> ret2, node |-> node, threw |-> threw,
     calls |-> calls]

Thrown(d) == Outcome(d, FALSE, FALSE, nil, TRUE, <<>>)

\* Set::emplace that leaves the candidate node allocated on a collision
Set_emplace_leaky(d, v) ==
    LET settle(new_node, i) ==
            Outcome(i.d, i.res = new_node, FALSE, nil, FALSE, <<>>)
        try(a) ==
            IF ~a.ok THEN Thrown(d)
            ELSE settle(a.res, insert_if_not_exists(a.d, a.res))
    IN  try(allocate_node(d, v, 0))

\* AVLDictSet::emplace
Set_emplace(d, v) ==
    LET settle(new_node, i) ==
            IF i.res # new_node
            THEN Outcome(deallocate_node(i.d, new_node), FALSE, FALSE, nil,
                         FALSE, <<>>)
            ELSE Outcome(i.d, TRUE, FALSE, nil, FALSE, <<>>)
        try(a) ==
            IF ~a.ok THEN Thrown(d)
            ELSE settle(a.res, insert_if_not_exists(a.d, a.res))
    IN  try(allocate_node(d, v, 0))

\* AVLDictMultiset::emplace
Multiset_emplace(d, v) ==
    LET try(a) ==
            IF ~a.ok THEN Thrown(d)
            ELSE Outcome(insert(a.d, a.res), FALSE, FALSE, a.res, FALSE, <<>>)
    IN  try(allocate_node(d, v, 0))

\* AVLDictMap::emplace
Map_emplace(d, k, v) ==
    LET settle(new_node, x) ==
            Outcome(x.d, x.res, FALSE, new_node, FALSE, <<>>)
        try(a) ==
            IF ~a.ok THEN Thrown(d)
            ELSE settle(a.res, insert_or_replace(a.d, a.res))
    IN  try(allocate_node(d, k, v))

\* AVLDictMultimap::emplace
Multimap_emplace(d, k, v) ==
    LET try(a) ==
            IF ~a.ok THEN Thrown(d)
            ELSE Outcome(insert(a.d, a.res), FALSE, FALSE, a.res, FALSE, <<>>)
    IN  try(allocate_node(d, k, v))

\* operator[] that constructs its default value before it looks for the key
Map_index_eager(d, k) ==
    LET ref(o) == [o EXCEPT !.ret = FALSE]
    IN  ref(Map_emplace(d, k, 0))

\* AVLDictMap::operator[]
Map_index(d, k) ==
    LET ref(e) ==
            IF ~e.ok THEN Thrown(d)
            ELSE Outcome(e.d, FALSE, FALSE, e.res, FALSE, <<>>)
    IN  ref(emplace_if_not_exists(d, k))

\* map[k] = v: the value is written through the reference operator[] returns
Map_assign(d, k, v) ==
    LET write(o) ==
            IF o.threw THEN o ELSE [o EXCEPT !.d.pool[o.node].val = v]
    IN  write(Map_index(d, k))

\* Map::alter_key that puts the node back the way a Multimap does
Map_alter_key_beside(d, old_key, new_key) ==
    LET rekey(p) ==
            IF p.res = nil
            THEN Outcome(p.d, FALSE, FALSE, nil, FALSE, <<>>)
            ELSE Outcome(insert([p.d EXCEPT !.pool[p.res].key = new_key],
                                p.res),
                         TRUE, FALSE, p.res, FALSE, <<>>)
    IN  rekey(pull_out(d, old_key))

\* AVLDictMap::alter_key
Map_alter_key(d, old_key, new_key) ==
    LET settle(x, i) == Outcome(i.d, TRUE, ~i.res, x, FALSE, <<>>)
        rekey(p) ==
            IF p.res = nil
            THEN Outcome(p.d, FALSE, FALSE, nil, FALSE, <<>>)
            ELSE settle(p.res,
                        insert_or_replace(
                            [p.d EXCEPT !.pool[p.res].key = new_key], p.res))
    IN  rekey(pull_out(d, old_key))

\* Multimap::alter_key that puts the node back the way a Map does
Multimap_alter_key_replacing(d, old_key, new_key) ==
    LET settle(x, i) == Outcome(i.d, TRUE, FALSE, x, FALSE, <<>>)
        rekey(p) ==
            IF p.res = nil
            THEN Outcome(p.d, FALSE, FALSE, nil, FALSE, <<>>)
            ELSE settle(p.res,
                        insert_or_replace(
                            [p.d EXCEPT !.pool[p.res].key = new_key], p.res))
    IN  rekey(pull_out(d, old_key))

\* AVLDictMultimap::alter_key
Multimap_alter_key(d, old_key, new_key) ==
    LET rekey(p) ==
            IF p.res = nil
            THEN Outcome(p.d, FALSE, FALSE, nil, FALSE, <<>>)
            ELSE Outcome(insert([p.d EXCEPT !.pool[p.res].key = new_key],
                                p.res),
                         TRUE, FALSE, p.res, FALSE, <<>>)
    IN  rekey(pull_out(d, old_key))

\* erase(key) as a call of the container
Dict_erase(d, k) ==
    LET report(e) == Outcome(e.d, e.res, FALSE, nil, FALSE, <<>>)
    IN  report(erase(d, k))

\* AVLDictContainer::filter
Dict_filter(d, cond) ==
    LET report(f) == Outcome(f.d, FALSE, FALSE, nil, FALSE, f.calls)
    IN  report(filter(d, cond))

Dict_clear(d, triv) ==
    Outcome(clear(d, triv), FALSE, FALSE, nil, FALSE, <<>>)

---------------------------------------------------------------------------
(* The state machine: a caller making one public call after another *)

NoCall ==
    [op |-> "none", key |-> 0, val |-> 0, key2 |-> 0, cond |-> {},
     ret |-> FALSE, ret2 |-> FALSE, node |-> nil, threw |-> FALSE,
     calls |-> <<>>]

\* The conditions filter() is called with
Conds == {S \X Values : S \in SUBSET Keys} \cup {Keys \X {v} : v \in Values}

\* No second dictionary object exists
NoOther ==
    [pool |-> <<>>, capacity |-> 0, head |-> 0, root |-> nil, size |-> 0,
     failed |-> FALSE]

\* A node is trivially destructible only if its payload is (a Set or
\* Multiset of integers); AVLMapNode::DataU has a destructor of its own
Init ==
    /\ dict = NewDictionary(1)
    /\ pre = dict
    /\ last = NoCall
    /\ kind \in Kinds
    /\ trivial \in BOOLEAN
    /\ trivial => ~IsMapKind(kind)
    /\ other = NoOther
    /\ bits = IndexBits
    /\ scenario = <<>>

\* The model stops inserting at this many allocated nodes: MaxSize for a
\* Set or Multiset, MaxSizeWide where the pool has more to tell apart (the
\* values of a map, the slots clear() leaves behind)
SizeBound ==
    IF IsMapKind(kind) \/ trivial THEN MaxSizeWide ELSE MaxSize

\* The caller makes a call when it holds no result of an earlier one; pre
\* keeps the dictionary as the call found it
Does(op, key, val, key2, cond, out) ==
    /\ last.op = "none"
    /\ ~dict.failed
    /\ dict' = out.d
    /\ pre' = dict
    /\ last' = [op |-> op, key |-> key, val |-> val, key2 |-> key2,
                cond |-> cond, ret |-> out.ret, ret2 |-> out.ret2,
                node |-> out.node, threw |-> out.threw, calls |-> out.calls]
    /\ UNCHANGED <<kind, trivial, other, bits, scenario>>

\* The caller is done with the result of the call
Return ==
    /\ last.op # "none"
    /\ last' = NoCall
    /\ pre' = dict
    /\ UNCHANGED <<dict, kind, trivial, other, bits, scenario>>

\* A Set or Map at the bound is still given the keys it holds, which do
\* not make it grow
HasRoomFor(key) == dict.size < SizeBound \/ find(dict, key) # nil

SetInsert ==
    /\ kind = "Set"
    /\ \E v \in Keys :
          /\ HasRoomFor(v)
          /\ Does("insert", v, 0, 0, {}, Set_emplace(dict, v))

MultisetInsert ==
    /\ kind = "Multiset"
    /\ dict.size < SizeBound
    /\ \E v \in Keys : Does("insert", v, 0, 0, {}, Multiset_emplace(dict, v))

MapInsert ==
    /\ kind = "Map"
    /\ \E k \in Keys, v \in Values :
          /\ HasRoomFor(k)
          /\ Does("insert", k, v, 0, {}, Map_emplace(dict, k, v))

MultimapInsert ==
    /\ kind = "Multimap"
    /\ dict.size < SizeBound
    /\ \E k \in Keys, v \in Values :
          Does("insert", k, v, 0, {}, Multimap_emplace(dict, k, v))

\* map[k], read only
MapIndex ==
    /\ kind = "Map"
    /\ \E k \in Keys :
          /\ HasRoomFor(k)
          /\ Does("index", k, 0, 0, {}, Map_index(dict, k))

\* map[k] = v
MapIndexAssign ==
    /\ kind = "Map"
    /\ \E k \in Keys, v \in Values :
          /\ HasRoomFor(k)
          /\ Does("assign", k, v, 0, {}, Map_assign(dict, k, v))

Erase ==
    \E k \in Keys : Does("erase", k, 0, 0, {}, Dict_erase(dict, k))

Clear ==
    Does("clear", 0, 0, 0, {}, Dict_clear(dict, trivial))

Filter ==
    /\ kind \in {"Set", "Map"}
    /\ \E cond \in Conds :
          Does("filter", 0, 0, 0, cond, Dict_filter(dict, cond))

MapAlterKey ==
    /\ kind = "Map"
    /\ \E old_key \in Keys, new_key \in Keys :
          Does("alter_key", old_key, 0, new_key, {},
               Map_alter_key(dict, old_key, new_key))

MultimapAlterKey ==
    /\ kind = "Multimap"
    /\ \E old_key \in Keys, new_key \in Keys :
          Does("alter_key", old_key, 0, new_key, {},
               Multimap_alter_key(dict, old_key, new_key))

Next ==
    \/ Return
    \/ SetInsert
    \/ MultisetInsert
    \/ MapInsert
    \/ MultimapInsert
    \/ MapIndex
    \/ MapIndexAssign
    \/ Erase
    \/ Clear
    \/ Filter
    \/ MapAlterKey
    \/ MultimapAlterKey

Spec == Init /\ [][Next]_vars

---------------------------------------------------------------------------
(* What an observer sees of a dictionary *)

\* The handles met by recursive descent from x, in order
RECURSIVE InOrder(_, _)
InOrder(d, x) ==
    IF x = nil THEN <<>>
    ELSE InOrder(d, Kid(d, x, L)) \o <<x>> \o InOrder(d, Kid(d, x, R))

Handles(d) == InOrder(d, d.root)

PayloadOf(d, x) == <<d.pool[x].key, d.pool[x].val>>

KeysIn(d, hs) == [i \in 1..Len(hs) |-> KeyOf(d, hs[i])]
PayloadsIn(d, hs) == [i \in 1..Len(hs) |-> PayloadOf(d, hs[i])]

\* The keys and the payloads a full for_each produces
KeysOf(d) == KeysIn(d, Handles(d))
Payloads(d) == PayloadsIn(d, Handles(d))

Range(s) == {s[i] : i \in 1..Len(s)}

StrictlyIncreasing(ks) ==
    \A i \in 1..(Len(ks) - 1) : compare(ks[i], ks[i + 1])

NonDecreasing(ks) ==
    \A i \in 1..(Len(ks) - 1) : ~compare(ks[i + 1], ks[i])

\* The free list, from head to the end marker
RECURSIVE FreeListFrom(_, _)
FreeListFrom(d, i) ==
    IF i >= d.capacity THEN <<>>
    ELSE <<i>> \o FreeListFrom(d, d.pool[i].ptr)

FreeList(d) == FreeListFrom(d, d.head)

\* The structural height of the subtree of x
RECURSIVE Height(_, _)
Height(d, x) ==
    IF x = nil THEN 0
    ELSE 1 + Max(Height(d, Kid(d, x, L)), Height(d, Kid(d, x, R)))

\* s with its i-th element left out
Without(s, i) == [j \in 1..(Len(s) - 1) |-> IF j < i THEN s[j] ELSE s[j + 1]]

\* The elements of s that are in the set keep, in the order of s
RECURSIVE Only(_, _)
Only(s, keep) ==
    IF s = <<>> THEN <<>>
    ELSE IF Head(s) \in keep THEN <<Head(s)>> \o Only(Tail(s), keep)
    ELSE Only(Tail(s), keep)

Present(d, key) == \E i \in 1..Len(Handles(d)) : KeyOf(d, Handles(d)[i]) = key

Returned == last.op # "none"

(* Copy construction: a caller that holds a dictionary and a copy of it *)

MaxSizeCopy == 2
MaxKeyCopy == 3
MaxGarbage == 2

\* The free slot that follows slot i in the list the copy constructor
\* builds: the next greater free index, capacity at the end
NextFree(free, i, capacity) ==
    IF \E j \in free : j > i
    THEN CHOOSE j \in free : j > i /\ \A k \in free : k > i => j <= k
    ELSE capacity

\* The copy constructor with a node copy that leaves out the payload
copy_base_only(d, garbage_h, garbage_kid) ==
    [d EXCEPT
       !.pool = [i \in 0..(d.capacity - 1) |->
                   IF i \in Range(FreeList(d))
                   THEN FreeSlot(NextFree(Range(FreeList(d)), i, d.capacity))
                   ELSE Node(0, 0, d.pool[i].kid[1], d.pool[i].kid[2],
                             d.pool[i].h)],
       !.head = NextFree(Range(FreeList(d)), 0, d.capacity)]

\* AVLPoolAllocator(const AVLPoolAllocator&) and the defaulted copy of
\* root, size_ and compare. The free slots are marked and chained anew in
\* increasing order, every other slot above 0 is copy-constructed from the
\* source. Slot 0 is copy-constructed from the new array's own slot 0, of
\* which only ptr (the bytes of kid[L]) has been written: its kid[R] and h
\* are whatever the memory held
copy(d, garbage_h, garbage_kid) ==
    [d EXCEPT
       !.pool = [i \in 0..(d.capacity - 1) |->
                   IF i = nil
                   THEN Node(0, 0, nil, garbage_kid, garbage_h)
                   ELSE IF i \in Range(FreeList(d))
                   THEN FreeSlot(NextFree(Range(FreeList(d)), i, d.capacity))
                   ELSE d.pool[i]],
       !.head = NextFree(Range(FreeList(d)), 0, d.capacity)]

\* The new array after the two marking loops of the copy constructor: ptr
\* is max_capacity in the cells of the source's free list and 0 in the
\* others, and no cell holds a constructed node
MarkedArray(d) ==
    [i \in 0..(d.capacity - 1) |->
       [ptr |-> IF i \in Range(FreeList(d)) THEN max_capacity ELSE 0,
        built |-> FALSE]]

\* emergency_destruct that takes no cell for unallocated
RECURSIVE emergency_destruct_all(_, _, _, _)
emergency_destruct_all(arr, head, beg, capacity) ==
    IF beg >= capacity THEN <<>>
    ELSE <<beg>> \o emergency_destruct_all(arr, head, beg + 1, capacity)

\* emergency_destruct(beg): the cells elem(i).~T() is called on, in order.
\* The cell that is the head of the free list built so far is skipped and
\* the head moves on to the next free cell
RECURSIVE emergency_destruct(_, _, _, _)
emergency_destruct(arr, head, beg, capacity) ==
    IF beg >= capacity THEN <<>>
    ELSE IF beg = head
    THEN emergency_destruct(arr, arr[beg].ptr, beg + 1, capacity)
    ELSE <<beg>> \o emergency_destruct(arr, head, beg + 1, capacity)

\* The loop of the copy constructor from cell i down to cell 1, when the
\* copy constructor of T throws at cell fail_at: marked cells are chained
\* into the free list, the others are constructed; at fail_at the catch
\* block runs emergency_destruct(fail_at + 1) and rethrows
RECURSIVE copy_loop(_, _, _, _, _)
copy_loop(d, arr, head, i, fail_at) ==
    IF i = 0
    THEN [threw |-> FALSE, arr |-> arr, head |-> head, destructed |-> <<>>]
    ELSE IF arr[i].ptr = max_capacity
    THEN copy_loop(d, [arr EXCEPT ![i].ptr = head], i, i - 1, fail_at)
    ELSE IF i = fail_at
    THEN [threw |-> TRUE, arr |-> arr, head |-> head,
          destructed |-> emergency_destruct(arr, head, i + 1, d.capacity)]
    ELSE copy_loop(d, [arr EXCEPT ![i].built = TRUE], head, i - 1, fail_at)

\* AVLPoolAllocator(const AVLPoolAllocator&) in which T(apa.elem(fail_at))
\* throws
copy_failing(d, fail_at) ==
    copy_loop(d, MarkedArray(d), d.capacity, d.capacity - 1, fail_at)

\* Copying starts from a Set or Multiset that has no copy
InitCopy ==
    /\ dict = NewDictionary(1)
    /\ pre = dict
    /\ last = NoCall
    /\ kind \in {"Set", "Multiset"}
    /\ trivial = FALSE
    /\ other = NoOther
    /\ bits = IndexBits
    /\ scenario = <<>>

CopyInsert ==
    /\ dict.size < MaxSizeCopy
    /\ \E v \in 1..MaxKeyCopy :
          Does("insert", v, 0, 0, {},
               IF kind = "Set" THEN Set_emplace(dict, v)
               ELSE Multiset_emplace(dict, v))

CopyErase ==
    \E k \in 1..MaxKeyCopy : Does("erase", k, 0, 0, {}, Dict_erase(dict, k))

\* AVLDictSet copy(dict): from now on dict is the copy and other the source
Copy ==
    /\ last.op = "none"
    /\ other = NoOther
    /\ \E garbage_h \in 0..MaxGarbage,
          garbage_kid \in {nil} :
          dict' = copy(dict, garbage_h, garbage_kid)
    /\ other' = dict
    /\ pre' = dict
    /\ last' = [NoCall EXCEPT !.op = "copy"]
    /\ UNCHANGED <<kind, trivial, bits, scenario>>

\* The caller turns to the object it was not working on
Swap ==
    /\ last.op = "none"
    /\ other # NoOther
    /\ ~dict.failed
    /\ dict' = other
    /\ other' = dict
    /\ pre' = other
    /\ UNCHANGED <<last, kind, trivial, bits, scenario>>

\* AVLDictSet copy(dict) in which the copy of the payload in slot fail_at
\* throws: no copy comes to exist. last.cond holds the cells that had been
\* constructed in the new array, last.calls the cells that were destructed
CopyFails ==
    /\ last.op = "none"
    /\ ~dict.failed
    /\ \E fail_at \in 1..(dict.capacity - 1) :
          /\ ~dict.pool[fail_at].free
          /\ LET report(c) ==
                     [NoCall EXCEPT !.op = "copy_failed", !.key = fail_at,
                                    !.threw = c.threw,
                                    !.calls = c.destructed,
                                    !.cond = {i \in DOMAIN c.arr :
                                                c.arr[i].built}]
             IN  last' = report(copy_failing(dict, fail_at))
    /\ pre' = dict
    /\ UNCHANGED <<dict, kind, trivial, other, bits, scenario>>

NextCopy ==
    \/ Return
    \/ CopyInsert
    \/ CopyErase
    \/ Copy
    \/ Swap
    \/ CopyFails

SpecCopy == InitCopy /\ [][NextCopy]_vars

---------------------------------------------------------------------------
(* A small pool: a caller of a Set or a Map whose size_type is narrow *)

\* Widths of size_type, keys and sizes of the small pool
SmallIndexBits == 2
MaxKeyPool == 3
MaxSizePool == 3

\* reserve_for(n) that moves one cell too few of the old arena
reserve_for_losing(d, n) ==
    LET grown(new_capacity, free) ==
            [ok |-> TRUE,
             d |-> [d EXCEPT
                      !.pool = [i \in 0..(new_capacity - 1) |->
                                  IF i >= d.capacity - 1 THEN FreeSlot(i + 1)
                                  ELSE IF i \in free
                                       THEN FreeSlot(d.pool[i].ptr)
                                       ELSE d.pool[i]],
                      !.capacity = new_capacity]]
    IN  IF n < d.capacity THEN [ok |-> TRUE, d |-> d]
        ELSE IF d.capacity = max_capacity THEN [ok |-> FALSE, d |-> d]
        ELSE grown(Max(n, GrownCapacity(d.capacity)), Range(FreeList(d)))

\* reserve_for(n) that starts the free list at the new region
reserve_for_rehead(d, n) ==
    LET grown(new_capacity, free) ==
            [ok |-> TRUE,
             d |-> [d EXCEPT
                      !.pool = [i \in 0..(new_capacity - 1) |->
                                  IF i >= d.capacity THEN FreeSlot(i + 1)
                                  ELSE IF i \in free
                                       THEN FreeSlot(d.pool[i].ptr)
                                       ELSE d.pool[i]],
                      !.capacity = new_capacity,
                      !.head = d.capacity]]
    IN  IF n < d.capacity THEN [ok |-> TRUE, d |-> d]
        ELSE IF d.capacity = max_capacity THEN [ok |-> FALSE, d |-> d]
        ELSE grown(Max(n, GrownCapacity(d.capacity)), Range(FreeList(d)))

\* reserve_for(n): ok = FALSE is THROW("The AVLPool is full"). The cells of
\* the free list keep their links, every other cell is moved, the new cells
\* are chained behind the old arena and head stays what it was.
reserve_for(d, n) ==
    LET grown(new_capacity, free) ==
            [ok |-> TRUE,
             d |-> [d EXCEPT
                      !.pool = [i \in 0..(new_capacity - 1) |->
                                  IF i >= d.capacity THEN FreeSlot(i + 1)
                                  ELSE IF i \in free
                                       THEN FreeSlot(d.pool[i].ptr)
                                       ELSE d.pool[i]],
                      !.capacity = new_capacity]]
    IN  IF n < d.capacity THEN [ok |-> TRUE, d |-> d]
        ELSE IF d.capacity = max_capacity THEN [ok |-> FALSE, d |-> d]
        ELSE grown(Max(n, GrownCapacity(d.capacity)), Range(FreeList(d)))

\* AVLDictionary::reserve_for
Dict_reserve_for(d, n) ==
    LET report(r) == Outcome(r.d, FALSE, FALSE, nil, ~r.ok, <<>>)
    IN  report(reserve_for(d, n))

\* deallocate(n) that does not put the cell on the free list
deallocate_dropping(d, n) == d

\* deallocate(n): the cell, in which nothing is constructed, goes back to the
\* front of the free list
deallocate(d, n) ==
    [d EXCEPT !.pool[n] = FreeSlot(d.head), !.head = n]

\* allocate_node() in which the constructor of Node throws: the catch block
\* gives the cell back and rethrows. ok tells whether allocate() gave a cell
allocate_node_failing(d) ==
    LET caught(a) ==
            IF ~a.ok THEN a
            ELSE [ok |-> TRUE, res |-> a.res, d |-> deallocate(a.d, a.res)]
    IN  caught(allocate(d))

\* emplace / insert / operator[] ending in the exception of Node's
\* constructor; ret tells whether a cell had been taken, node is that cell
Dict_emplace_failing(d) ==
    LET report(a) == Outcome(a.d, a.ok, FALSE, a.res, TRUE, <<>>)
    IN  report(allocate_node_failing(d))

InitPool ==
    /\ dict = NewDictionary(1)
    /\ pre = dict
    /\ last = NoCall
    /\ kind \in {"Set", "Map"}
    /\ trivial = FALSE
    /\ other = NoOther
    /\ bits \in {SmallIndexBits, SmallIndexBits + 1}
    /\ scenario = <<>>

PoolSetInsert ==
    /\ kind = "Set"
    /\ dict.size < MaxSizePool
    /\ \E k \in 1..MaxKeyPool :
          Does("insert", k, 0, 0, {}, Set_emplace(dict, k))

PoolMapInsert ==
    /\ kind = "Map"
    /\ dict.size < MaxSizePool
    /\ \E k \in 1..MaxKeyPool, v \in Values :
          Does("insert", k, v, 0, {}, Map_emplace(dict, k, v))

PoolMapIndex ==
    /\ kind = "Map"
    /\ dict.size < MaxSizePool
    /\ \E k \in 1..MaxKeyPool :
          Does("index", k, 0, 0, {}, Map_index(dict, k))

PoolErase ==
    \E k \in 1..MaxKeyPool : Does("erase", k, 0, 0, {}, Dict_erase(dict, k))

Reserve ==
    \E n \in 0..max_capacity :
        Does("reserve", n, 0, 0, {}, Dict_reserve_for(dict, n))

\* An insertion of a new key in which the payload's constructor throws
PoolInsertFails ==
    /\ dict.size < MaxSizePool
    /\ \E k \in 1..MaxKeyPool :
          /\ ~Present(dict, k)
          /\ Does("insert_failed", k, 0, 0, {}, Dict_emplace_failing(dict))

NextPool ==
    \/ Return
    \/ PoolSetInsert
    \/ PoolMapInsert
    \/ PoolMapIndex
    \/ PoolErase
    \/ Reserve
    \/ PoolInsertFails

SpecPool == InitPool /\ [][NextPool]_vars

---------------------------------------------------------------------------
(* Lookups and traversals: a caller that inserts, erases and asks *)

\* lower_bound(key): res is the handle of the last node that was not less
\* than key on the way down, nil for nullptr
RECURSIVE lower_bound_from(_, _, _, _)
lower_bound_from(d, x, key, res) ==
    IF x = nil THEN res
    ELSE IF compare(KeyOf(d, x), key)
    THEN lower_bound_from(d, Kid(d, x, R), key, res)
    ELSE lower_bound_from(d, Kid(d, x, L), key, x)

lower_bound(d, key) == lower_bound_from(d, d.root, key, nil)

\* upper_bound(key)
RECURSIVE upper_bound_from(_, _, _, _)
upper_bound_from(d, x, key, res) ==
    IF x = nil THEN res
    ELSE IF compare(key, KeyOf(d, x))
    THEN upper_bound_from(d, Kid(d, x, L), key, x)
    ELSE upper_bound_from(d, Kid(d, x, R), key, res)

\* upper_bound that takes an equivalent key as well
upper_bound_inclusive(d, key) == lower_bound(d, key)

upper_bound(d, key) == upper_bound_from(d, d.root, key, nil)

\* foreach_since_lower_bound that leaves out the elements equivalent to key
foreach_since_lower_bound_strict(d, x, key, cond) ==
    foreach_since_upper_bound(d, x, key, cond)

\* foreach_since_lower_bound(x, key, callback): the callback stops at the
\* payloads in cond
RECURSIVE foreach_since_lower_bound(_, _, _, _)
foreach_since_lower_bound(d, x, key, cond) ==
    LET right(l, r) ==
            [stop |-> r.stop, seen |-> Append(l.seen, x) \o r.seen]
        here(l) ==
            IF l.stop THEN l
            ELSE IF Accepts(cond, d.pool[x])
            THEN [stop |-> TRUE, seen |-> Append(l.seen, x)]
            ELSE right(l, for_each(d, Kid(d, x, R), cond))
    IN  IF x = nil
        THEN [stop |-> FALSE, seen |-> <<>>]
        ELSE IF compare(KeyOf(d, x), key)
        THEN foreach_since_lower_bound(d, Kid(d, x, R), key, cond)
        ELSE here(foreach_since_lower_bound(d, Kid(d, x, L), key, cond))

\* dirmost(node, direction): nil for nullptr
RECURSIVE dirmost(_, _, _)
dirmost(d, node, direction) ==
    IF node = nil THEN nil
    ELSE IF Kid(d, node, direction) = nil THEN node
    ELSE dirmost(d, Kid(d, node, direction), direction)

front(d) == dirmost(d, d.root, L)
\* back that does not descend
back_at_root(d) == d.root

back(d) == dirmost(d, d.root, R)

\* A lookup reports the handle of the node it returns the payload of
Dict_lookup(d, x) == Outcome(d, x # nil, FALSE, x, FALSE, <<>>)

\* A traversal reports the handles of the nodes the callback was called on,
\* in the order of the calls, and whether the callback stopped it
Dict_traversal(d, t) == Outcome(d, t.stop, FALSE, nil, FALSE, t.seen)

\* The callbacks: one that never stops ({}) and, for every key, one that
\* stops at the elements of that key
Callbacks == {{}} \cup {{k} \X Values : k \in Keys}

\* The asking caller holds a Set or a Multimap
InitQuery ==
    /\ dict = NewDictionary(1)
    /\ pre = dict
    /\ last = NoCall
    /\ kind \in {"Set", "Multimap"}
    /\ trivial = FALSE
    /\ other = NoOther
    /\ bits = IndexBits
    /\ scenario = <<>>

Find ==
    \E k \in Keys : Does("find", k, 0, 0, {}, Dict_lookup(dict, find(dict, k)))

LowerBound ==
    \E k \in Keys :
        Does("lower_bound", k, 0, 0, {}, Dict_lookup(dict, lower_bound(dict, k)))

UpperBound ==
    \E k \in Keys :
        Does("upper_bound", k, 0, 0, {}, Dict_lookup(dict, upper_bound(dict, k)))

Front == Does("front", 0, 0, 0, {}, Dict_lookup(dict, front(dict)))

Back == Does("back", 0, 0, 0, {}, Dict_lookup(dict, back(dict)))

ForEach ==
    \E cb \in Callbacks :
        Does("for_each", 0, 0, 0, cb,
             Dict_traversal(dict, for_each(dict, dict.root, cb)))

ForeachSinceLowerBound ==
    \E k \in Keys, cb \in Callbacks :
        Does("foreach_since_lower_bound", k, 0, 0, cb,
             Dict_traversal(dict,
                            foreach_since_lower_bound(dict, dict.root, k, cb)))

ForeachSinceUpperBound ==
    \E k \in Keys, cb \in Callbacks :
        Does("foreach_since_upper_bound", k, 0, 0, cb,
             Dict_traversal(dict,
                            foreach_since_upper_bound(dict, dict.root, k, cb)))

NextQuery ==
    \/ Return
    \/ SetInsert
    \/ MultimapInsert
    \/ Erase
    \/ Find
    \/ LowerBound
    \/ UpperBound
    \/ Front
    \/ Back
    \/ ForEach
    \/ ForeachSinceLowerBound
    \/ ForeachSinceUpperBound

SpecQuery == InitQuery /\ [][NextQuery]_vars

---------------------------------------------------------------------------
(* A scripted caller: the values of a scenario inserted one by one *)

\* Scenario A
ScenarioA == <<5, 3, 8, 1, 4, 7, 9, 2, 6, 0>>

\* seq begun at its i-th element and continued from its start
Rotated(seq, i) ==
    [j \in 1..Len(seq) |-> seq[((i + j - 2) % Len(seq)) + 1]]

\* Scenario A and the orders that begin it at another of its values
Scenarios == {Rotated(ScenarioA, i) : i \in 1..Len(ScenarioA)}

\* An empty integer Set and the values to insert
InitScenario ==
    /\ dict = NewDictionary(1)
    /\ pre = dict
    /\ last = NoCall
    /\ kind = "Set"
    /\ trivial = TRUE
    /\ other = NoOther
    /\ bits = IndexBits
    /\ scenario \in Scenarios

\* The next value of the scenario is inserted; the values are distinct, so
\* as many have been inserted as calls were made
ScenarioInsert ==
    /\ last.op = "none"
    /\ dict.size < Len(scenario)
    /\ Does("insert", scenario[dict.size + 1], 0, 0, {},
            Set_emplace(dict, scenario[dict.size + 1]))

NextScenario ==
    \/ Return
    \/ ScenarioInsert

SpecScenario == InitScenario /\ [][NextScenario]_vars

---------------------------------------------------------------------------
(* Predicates the claims are stated with *)

\* Every node reachable from the root has subtrees whose structural heights
\* differ by at most 1
RealBalanced(d) ==
    \A x \in Range(Handles(d)) :
        Height(d, Kid(d, x, L)) - Height(d, Kid(d, x, R)) \in {-1, 0, 1}

\* The call that has just returned is erase(key) of a key the container
\* held / did not hold
ErasedPresent == last.op = "erase" /\ Present(pre, last.key)
ErasedAbsent == last.op = "erase" /\ ~Present(pre, last.key)

\* The payloads of d with every entry of key k holding value v instead
Replaced(d, k, v) ==
    [i \in 1..Len(Payloads(d)) |->
        IF Payloads(d)[i][1] = k THEN <<k, v>> ELSE Payloads(d)[i]]

\* The number of elements of s that are in the set T
Count(s, T) == Cardinality({i \in 1..Len(s) : s[i] \in T})

---------------------------------------------------------------------------
(* Claims C1 to C10 *)

\* C1: after every operation of a sequence of insert, erase, operator[],
\* alter_key and filter calls on a Set or Map, the in-order traversal from
\* the root yields strictly increasing keys.
Thm_C1 ==
    kind \in {"Set", "Map"} => StrictlyIncreasing(KeysOf(dict))

\* C1 witness: alter_key has moved an entry of a Map of three and the root
\* is another node than before.
Wit_C1 ==
    /\ kind = "Map"
    /\ last.op = "alter_key"
    /\ last.ret
    /\ last.key # last.key2
    /\ Len(Handles(dict)) = 3
    /\ dict.root # pre.root

\* C2: after every operation of a sequence of inserts and erases on a Set,
\* the structural heights of the two subtrees of every reachable node
\* differ by at most 1.
Cex_C2 ==
    kind = "Set" => RealBalanced(dict)

\* C3: after every public operation size() is the number of nodes reachable
\* from the root, and the root is nil exactly when size() is 0.
Cex_C3 ==
    /\ dict.size = Len(Handles(dict))
    /\ dict.root = nil <=> dict.size = 0

\* C4: erase(key) of a present key returns true, makes size() one less,
\* removes exactly one element equivalent to key (none is left in a Set or
\* Map), keeps every other element and leaves the traversal sorted.
Thm_C4 ==
    ErasedPresent =>
        /\ last.ret
        /\ dict.size = pre.size - 1
        /\ \E i \in 1..Len(Handles(pre)) :
              /\ KeyOf(pre, Handles(pre)[i]) = last.key
              /\ Handles(dict) = Without(Handles(pre), i)
        /\ PayloadsIn(dict, Handles(dict)) = PayloadsIn(pre, Handles(dict))
        /\ NonDecreasing(KeysOf(dict))
        /\ kind \in {"Set", "Map"} =>
              ~Present(dict, last.key) /\ find(dict, last.key) = nil

\* C4 witness: a Multimap has lost one of two entries of equal key, the
\* other is still there beside an entry of another key.
Wit_C4 ==
    /\ kind = "Multimap"
    /\ ErasedPresent
    /\ last.ret
    /\ Present(dict, last.key)
    /\ Len(Handles(dict)) = 2
    /\ Cardinality(Range(KeysOf(dict))) = 2

\* C5: erase(key) of an absent key, on an empty container too, returns
\* false and leaves size() and the sequence of elements the in-order
\* traversal produces as they were.
Thm_C5 ==
    ErasedAbsent =>
        /\ ~last.ret
        /\ dict.size = pre.size
        /\ Payloads(dict) = Payloads(pre)

\* C5 witness: erase of an absent key has returned false on a container
\* of three whose root it has changed.
Wit_C5 ==
    /\ ErasedAbsent
    /\ ~last.ret
    /\ Len(Handles(pre)) = 3
    /\ dict.root # pre.root

\* C6: erase(key) of an absent key leaves the root handle and the left
\* child, right child and stored height of every node as they were.
Cex_C6 ==
    ErasedAbsent =>
        /\ dict.root = pre.root
        /\ \A x \in Range(Handles(pre)) :
              /\ dict.pool[x].kid = pre.pool[x].kid
              /\ dict.pool[x].h = pre.pool[x].h

\* The call that has just returned is insert(v) on a Set / insert(k, v) on
\* a Map / map[k]
SetInserted == kind = "Set" /\ last.op = "insert"
MapInserted == kind = "Map" /\ last.op = "insert"
MapIndexed == kind = "Map" /\ last.op = "index"

\* C7: Set.insert(v) of an absent v returns true, size() grows by 1 and v
\* is found; of a present v it returns false, size() and the elements are
\* unchanged and the slot of the candidate node is on the free list again.
Thm_C7 ==
    SetInserted =>
        IF ~Present(pre, last.key)
        THEN /\ last.ret
             /\ dict.size = pre.size + 1
             /\ find(dict, last.key) # nil
             /\ KeyOf(dict, find(dict, last.key)) = last.key
             /\ Present(dict, last.key)
        ELSE /\ ~last.ret
             /\ dict.size = pre.size
             /\ Handles(dict) = Handles(pre)
             /\ KeysOf(dict) = KeysOf(pre)
             /\ allocate(pre).res \in Range(FreeList(dict))
             /\ Range(FreeList(dict)) \cap Range(Handles(dict)) = {}

\* C7 witness: a Set of three was asked to insert a value it holds, has
\* returned false, and a later insert can take the slot of the candidate.
Wit_C7 ==
    /\ SetInserted
    /\ Present(pre, last.key)
    /\ ~last.ret
    /\ Len(Handles(pre)) = 3
    /\ allocate(dict).res = allocate(pre).res

\* C8: Map.insert(k, v) of an absent k reports was-new and size() grows by
\* 1; of a present k it reports not-new, size() is unchanged, the value
\* found for k is v and every other entry keeps its key and value.
Thm_C8 ==
    MapInserted =>
        IF ~Present(pre, last.key)
        THEN /\ last.ret
             /\ dict.size = pre.size + 1
        ELSE /\ ~last.ret
             /\ dict.size = pre.size
             /\ find(dict, last.key) # nil
             /\ PayloadOf(dict, find(dict, last.key)) = <<last.key, last.val>>
             /\ Payloads(dict) = Replaced(pre, last.key, last.val)

\* C8 witness: an entry of a Map of three, not the root, has got another
\* value than it had.
Wit_C8 ==
    /\ MapInserted
    /\ Present(pre, last.key)
    /\ ~last.ret
    /\ Len(Handles(pre)) = 3
    /\ find(pre, last.key) # pre.root
    /\ pre.pool[find(pre, last.key)].val # last.val

\* C9: Map.operator[](k) of a present k returns the value of the existing
\* entry and changes nothing (capacity, free list, size(), the handle of
\* the entry); of an absent k it adds exactly one entry, of the default
\* value, and size() grows by 1.
Thm_C9 ==
    MapIndexed =>
        IF Present(pre, last.key)
        THEN /\ last.node = find(pre, last.key)
             /\ PayloadOf(dict, last.node) = PayloadOf(pre, last.node)
             /\ dict.capacity = pre.capacity
             /\ FreeList(dict) = FreeList(pre)
             /\ dict.size = pre.size
             /\ find(dict, last.key) = find(pre, last.key)
             /\ Handles(dict) = Handles(pre)
             /\ Payloads(dict) = Payloads(pre)
        ELSE /\ dict.size = pre.size + 1
             /\ PayloadOf(dict, last.node) = <<last.key, 0>>
             /\ \E i \in 1..Len(Handles(dict)) :
                   /\ Handles(dict)[i] = last.node
                   /\ Handles(pre) = Without(Handles(dict), i)
             /\ PayloadsIn(dict, Handles(pre)) = PayloadsIn(pre, Handles(pre))

\* C9 witness: map[k] has returned an entry of value 1 that a Map of two
\* held below its root.
Wit_C9 ==
    /\ MapIndexed
    /\ Present(pre, last.key)
    /\ Len(Handles(pre)) = 2
    /\ last.node # pre.root
    /\ pre.pool[last.node].val = 1

\* C10: filter(condition) on a Set or Map removes exactly the elements the
\* condition is true for, keeps the others in their relative order, makes
\* size() less by the number removed, leaves the tree balanced, and changes
\* nothing when the condition is always false.
Cex_C10 ==
    last.op = "filter" =>
        /\ Payloads(dict) = Only(Payloads(pre), (Keys \X Values) \ last.cond)
        /\ dict.size = pre.size - Count(Payloads(pre), last.cond)
        /\ RealBalanced(pre) => RealBalanced(dict)
        /\ last.cond = {} => dict = pre

\* What filter() does apart from the balance of the tree it leaves
FilterRemovesExactly ==
    last.op = "filter" =>
        /\ Payloads(dict) = Only(Payloads(pre), (Keys \X Values) \ last.cond)
        /\ PayloadsIn(dict, Handles(dict)) = PayloadsIn(pre, Handles(dict))
        /\ dict.size = pre.size - Count(Payloads(pre), last.cond)
        /\ last.cond = {} => dict = pre

---------------------------------------------------------------------------
(* Claims C11 to C20 *)

\* The call that has just returned is alter_key(last.key, last.key2) on a
\* Map / on a Multimap
MapAltered == kind = "Map" /\ last.op = "alter_key"
MultimapAltered == kind = "Multimap" /\ last.op = "alter_key"

\* The value find(key) gives in d
ValueAt(d, key) == d.pool[find(d, key)].val

\* C11: Map.alter_key(old, new) of a held old and a new that is the key of
\* another entry returns (true, true), size() is one less, old is not
\* found any more and the value found at new is the one old had.
Thm_C11 ==
    (MapAltered /\ Present(pre, last.key) /\ last.key2 # last.key
                /\ Present(pre, last.key2)) =>
        /\ last.ret
        /\ last.ret2
        /\ dict.size = pre.size - 1
        /\ find(dict, last.key) = nil
        /\ find(dict, last.key2) # nil
        /\ ValueAt(dict, last.key2) = ValueAt(pre, last.key)
        /\ Range(Payloads(dict)) =
              {e \in Range(Payloads(pre)) : e[1] \notin {last.key, last.key2}}
                  \cup {<<last.key2, ValueAt(pre, last.key)>>}

\* C11 witness: in a Map of three an entry of value 1 has taken the key of
\* an entry of value 0, which is gone.
Wit_C11 ==
    /\ MapAltered
    /\ last.ret /\ last.ret2
    /\ Len(Handles(pre)) = 3
    /\ Len(Handles(dict)) = 2
    /\ ValueAt(pre, last.key) = 1
    /\ ValueAt(pre, last.key2) = 0
    /\ ValueAt(dict, last.key2) = 1

\* C12: Map.alter_key(old, new) of an absent old returns (false, false)
\* and leaves mapping and size() alone; of a held old and a new that no
\* other entry has (new = old too) it returns (true, false), size() is
\* unchanged and the mapping is the one before with old removed and new
\* mapped to the value of old.
Thm_C12 ==
    MapAltered =>
        IF ~Present(pre, last.key)
        THEN /\ ~last.ret /\ ~last.ret2
             /\ dict.size = pre.size
             /\ Payloads(dict) = Payloads(pre)
        ELSE (last.key2 = last.key \/ ~Present(pre, last.key2)) =>
             /\ last.ret /\ ~last.ret2
             /\ dict.size = pre.size
             /\ Len(Payloads(dict)) = Len(Payloads(pre))
             /\ StrictlyIncreasing(KeysOf(dict))
             /\ Range(Payloads(dict)) =
                   {e \in Range(Payloads(pre)) : e[1] # last.key}
                       \cup {<<last.key2, ValueAt(pre, last.key)>>}

\* C12 witness: the smallest key of a Map of three has become its largest
\* and the entry has kept its value 1.
Wit_C12 ==
    /\ MapAltered
    /\ last.ret /\ ~last.ret2
    /\ Len(Handles(pre)) = 3
    /\ PayloadOf(pre, Handles(pre)[1]) = <<last.key, 1>>
    /\ PayloadOf(dict, Handles(dict)[3]) = <<last.key2, 1>>
    /\ last.key # last.key2

\* C13: Multimap.alter_key(old, new) returns true iff an entry of key old
\* exists; then exactly one entry of key old gets the key new, the entries
\* already at new stay, and size() is unchanged; when it returns false the
\* contents are unchanged.
Thm_C13 ==
    MultimapAltered =>
        /\ last.ret <=> Present(pre, last.key)
        /\ dict.size = pre.size
        /\ Range(Handles(dict)) = Range(Handles(pre))
        /\ Len(Handles(dict)) = Len(Handles(pre))
        /\ NonDecreasing(KeysOf(dict))
        /\ IF last.ret
           THEN /\ PayloadOf(pre, last.node)[1] = last.key
                /\ PayloadOf(dict, last.node) =
                      <<last.key2, PayloadOf(pre, last.node)[2]>>
                /\ \A x \in Range(Handles(pre)) \ {last.node} :
                      PayloadOf(dict, x) = PayloadOf(pre, x)
           ELSE Payloads(dict) = Payloads(pre)

\* C13 witness: one of two entries of key old has moved to a key another
\* entry holds; there are now two of key new and still one of key old.
Wit_C13 ==
    /\ MultimapAltered
    /\ last.ret
    /\ last.key # last.key2
    /\ Len(Handles(pre)) = 3
    /\ Count(KeysOf(pre), {last.key}) = 2
    /\ Count(KeysOf(dict), {last.key}) = 1
    /\ Count(KeysOf(dict), {last.key2}) = 2

\* The call that has just returned is insert on a Multiset or Multimap
MultiInserted == kind \in {"Multiset", "Multimap"} /\ last.op = "insert"

\* The place of handle x in the traversal of d
PlaceOf(d, x) == CHOOSE i \in 1..Len(Handles(d)) : Handles(d)[i] = x

\* C14: in a Multiset or Multimap the elements of equivalent keys are
\* adjacent in the traversal and ordered by insertion: insert puts the new
\* element after every element of an equivalent key that is already there,
\* and insert and erase keep the order of the elements they leave in.
Cex_C14 ==
    /\ kind \in {"Multiset", "Multimap"} => NonDecreasing(KeysOf(dict))
    /\ (kind \in {"Multiset", "Multimap"} /\ last.op \in {"insert", "erase"})
          => Only(Handles(dict), Range(Handles(pre)))
                = Only(Handles(pre), Range(Handles(dict)))
    /\ MultiInserted =>
          \A x \in Range(Handles(pre)) :
              KeyOf(pre, x) = last.key =>
                  PlaceOf(dict, x) < PlaceOf(dict, last.node)

\* What does hold of the order of equivalent elements: all but the place
\* of the new one, which comes before every equivalent element
NewestFirst ==
    /\ kind \in {"Multiset", "Multimap"} => NonDecreasing(KeysOf(dict))
    /\ (kind \in {"Multiset", "Multimap"} /\ last.op \in {"insert", "erase"})
          => Only(Handles(dict), Range(Handles(pre)))
                = Only(Handles(pre), Range(Handles(dict)))
    /\ MultiInserted =>
          \A x \in Range(Handles(pre)) :
              KeyOf(pre, x) = last.key =>
                  PlaceOf(dict, last.node) < PlaceOf(dict, x)

\* Slot 0 of d is the sentinel the constructor made: height 0, both kids nil
NilIntact(d) ==
    /\ d.pool[nil].h = 0
    /\ d.pool[nil].kid = <<nil, nil>>

\* The sentinel of a dictionary that was not made by copying stays intact
NilIntactUncopied == NilIntact(dict)

\* seth() has been applied to x since its kids last changed
HeightSet(d, x) == H(d, x) = 1 + Max(H(d, Kid(d, x, L)), H(d, Kid(d, x, R)))

\* The stored heights of the kids of x differ by at most 1
StoredBalanced(d, x) == H(d, Kid(d, x, L)) - H(d, Kid(d, x, R)) \in {-1, 0, 1}

\* What the copy constructor has just made of the source (other)
CopySame ==
    last.op = "copy" =>
        /\ dict.size = other.size
        /\ KeysOf(dict) = KeysOf(other)
        /\ Handles(dict) = Handles(other)
        /\ dict.root = other.root
        /\ dict.capacity = other.capacity
        /\ Range(FreeList(dict)) = Range(FreeList(other))

Cex_C16 ==
    /\ NilIntact(dict)
    /\ other # NoOther => NilIntact(other)

\* C17: after every public operation every node reachable from the root
\* stores the height 1 + max of the heights its kids store, the sentinel
\* storing 0, so that a node without kids stores 1.
Cex_C17 ==
    \A x \in Range(Handles(dict)) : HeightSet(dict, x)

\* Every node reachable from the root of d has kids whose stored heights
\* differ by at most 1
AllStoredBalanced(d) ==
    \A x \in Range(Handles(d)) : StoredBalanced(d, x)

\* C18: after every operation of a sequence of insert, insert-with-replace,
\* operator[], erase and filter calls every reachable node has kids whose
\* stored heights differ by at most 1: the empty dictionary is so, and
\* each of these calls keeps a dictionary so.
Thm_C18 ==
    /\ AllStoredBalanced(NewDictionary(1))
    /\ (last.op \in {"insert", "index", "assign", "erase", "filter"}
          /\ AllStoredBalanced(pre)) => AllStoredBalanced(dict)

\* C18 witness: an erase has taken a node out of a dictionary of four and
\* a rotation has made another node the root.
Wit_C18 ==
    /\ last.op = "erase"
    /\ last.ret
    /\ AllStoredBalanced(pre)
    /\ Len(Handles(pre)) = 4
    /\ dict.root # pre.root
    /\ pre.root \in Range(Handles(dict))

\* What growing the arena from before to after has to keep: every occupied
\* slot, slot 0 included, is at its index with its payload, kids and height,
\* and the root is the handle it was
GrowthKeeps(before, after) ==
    after.capacity > before.capacity =>
        /\ after.root = before.root
        /\ \A i \in 0..(before.capacity - 1) :
              i \notin Range(FreeList(before)) =>
                  after.pool[i] = before.pool[i]

\* C19: when allocate() or reserve_for() grows the arena, every occupied
\* slot stays occupied at the same index with the same payload, child links
\* and height, and the root and all links denote the same nodes. Stated for
\* a reserve_for call that has returned, for the growth allocate() would do
\* in the present state, and for an insertion that grew the arena (the
\* nodes it keeps have their handles and payloads, the insertion relinks
\* them).
Thm_C19 ==
    LET allocated(a) == a.ok => GrowthKeeps(dict, a.d)
    IN  /\ last.op = "reserve" => GrowthKeeps(pre, dict)
        /\ allocated(allocate(dict))
        /\ (last.op \in {"insert", "index"} /\ dict.capacity > pre.capacity)
               => /\ \A x \in Range(Handles(pre)) \cap Range(Handles(dict)) :
                        PayloadOf(dict, x) = PayloadOf(pre, x)
                  /\ dict.pool[nil] = pre.pool[nil]

\* reserve_for grew an arena that held two elements and a free cell
Wit_C19 ==
    /\ last.op = "reserve"
    /\ ~last.threw
    /\ dict.capacity > pre.capacity
    /\ pre.size >= 2
    /\ pre.head < pre.capacity

\* capacity() == max_capacity() and the free list is empty
PoolFull(d) == d.capacity = max_capacity /\ FreeList(d) = <<>>

\* Set.insert, Map.insert or Map.operator[] was called
Inserting == last.op \in {"insert", "index"}

\* An insertion of an absent key into a full pool fails with the pool-full
\* error
FullPoolRefuses ==
    (Inserting /\ PoolFull(pre) /\ ~Present(pre, last.key)) => last.threw

\* An insertion that failed with the pool-full error left the root, size,
\* capacity, free list and every slot as they were
RefusedKeepsAll == (Inserting /\ last.threw) => dict = pre

\* An insertion fails with the pool-full error only if the pool is full
RefusesOnlyWhenFull == (Inserting /\ last.threw) => PoolFull(pre)

\* C20: when capacity() == max_capacity() and the free list is empty,
\* inserting an absent key with Set.insert, Map.insert or Map.operator[]
\* fails with the pool-full error and leaves the root, size, capacity, free
\* list and every node as they were; the error is raised in no other
\* situation.
Cex_C20 ==
    /\ FullPoolRefuses
    /\ RefusedKeepsAll
    /\ (Inserting /\ last.threw) =>
           (PoolFull(pre) /\ ~Present(pre, last.key))

---------------------------------------------------------------------------
(* Claims C21 to C30 *)

\* C21: inserting a key that is already present into a Set returns false,
\* into a Map returns was-new = false, in every reachable state, a full pool
\* included; a duplicate insertion never ends in the pool-full error.
Cex_C21 ==
    (last.op = "insert" /\ Present(pre, last.key)) =>
        /\ ~last.threw
        /\ ~last.ret

\* C22: after clear(), for every node kind, nodes with a trivially
\* destructible payload included, the container is empty (size() == 0,
\* root == nil, for_each visits nothing) and every slot but the sentinel's
\* is on the free list.
Cex_C22 ==
    last.op = "clear" =>
        /\ dict.size = 0
        /\ dict.root = nil
        /\ Handles(dict) = <<>>
        /\ Range(FreeList(dict)) = 1..(dict.capacity - 1)

\* The slots that hold a constructed node, the sentinel's included
Occupied(d) == {i \in 0..(d.capacity - 1) : ~d.pool[i].free}

\* The free list reaches every free slot exactly once and no other slot
FreeListExact(d) ==
    /\ Range(FreeList(d)) = (0..(d.capacity - 1)) \ Occupied(d)
    /\ Cardinality(Range(FreeList(d))) = Len(FreeList(d))

\* C23: after a successful reserve_for(n) capacity() >= n, size() and the
\* set of occupied handles are unchanged, every slot that was free is still
\* free, the slots of the new region are all free, and the free list reaches
\* every free slot exactly once.
Thm_C23 ==
    (last.op = "reserve" /\ ~last.threw) =>
        /\ dict.capacity >= last.key
        /\ dict.size = pre.size
        /\ Occupied(dict) = Occupied(pre)
        /\ Handles(dict) = Handles(pre)
        /\ \A i \in 0..(pre.capacity - 1) : pre.pool[i].free => dict.pool[i].free
        /\ \A i \in pre.capacity..(dict.capacity - 1) : dict.pool[i].free
        /\ FreeListExact(dict)

\* reserve_for(n) grew to exactly n an arena that held an element and a
\* free cell
Wit_C23 ==
    /\ last.op = "reserve"
    /\ ~last.threw
    /\ dict.capacity = last.key
    /\ pre.capacity < last.key
    /\ pre.size >= 1
    /\ Len(FreeList(pre)) >= 1

\* C24: if copying the payload of an occupied slot fails during pool copy
\* construction, every payload already copied into the new arena is
\* destructed exactly once before the failure propagates, no free slot and
\* no not-yet-copied slot is destructed, and the source pool is unchanged.
Thm_C24 ==
    last.op = "copy_failed" =>
        /\ last.threw
        /\ Range(last.calls) = last.cond
        /\ Len(last.calls) = Cardinality(last.cond)
        /\ last.cond = {i \in (last.key + 1)..(pre.capacity - 1) :
                          ~pre.pool[i].free}
        /\ \A j \in 1..Len(last.calls) :
              /\ ~pre.pool[last.calls[j]].free
              /\ last.calls[j] > last.key
        /\ dict = pre

\* The copy failed at slot 1 of a pool in which a node above it had been
\* copied and a free slot lies above both
Wit_C24 ==
    /\ last.op = "copy_failed"
    /\ last.key = 1
    /\ last.calls # <<>>
    /\ \E i \in 2..(pre.capacity - 1) :
          /\ pre.pool[i].free
          /\ \E j \in 1..Len(last.calls) : last.calls[j] < i

\* C25: if the construction of a new node's payload fails after its slot
\* was taken from the pool, the slot is on the free list again before the
\* failure propagates, size() is not incremented, and root and every
\* existing node's links, heights and payloads are unchanged.
Thm_C25 ==
    (last.op = "insert_failed" /\ last.ret) =>
        /\ last.threw
        /\ last.node \in Range(FreeList(dict))
        /\ FreeListExact(dict)
        /\ dict.size = pre.size
        /\ dict.root = pre.root
        /\ Occupied(dict) = Occupied(pre)
        /\ \A i \in Occupied(pre) : dict.pool[i] = pre.pool[i]
        /\ Payloads(dict) = Payloads(pre)

\* The constructor failed in a cell of an arena that had just grown around
\* two elements
Wit_C25 ==
    /\ last.op = "insert_failed"
    /\ last.ret
    /\ pre.size = 2
    /\ dict.capacity > pre.capacity
    /\ last.node = pre.capacity

\* A lookup or traversal changes nothing
Unchanged == dict = pre

\* C26: find(key) returns an element whose key is equivalent to key
\* whenever there is one in the container, and the absent result exactly
\* when there is none, in every state reachable by inserts and erases.
Thm_C26 ==
    last.op = "find" =>
        /\ Unchanged
        /\ IF Present(pre, last.key)
           THEN /\ last.node \in Range(Handles(pre))
                /\ KeyOf(pre, last.node) = last.key
           ELSE last.node = nil

\* find returned a node two links below the root
Wit_C26 ==
    /\ last.op = "find"
    /\ last.node # nil
    /\ last.node # pre.root
    /\ last.node \notin {Kid(pre, pre.root, L), Kid(pre, pre.root, R)}

\* The least element of a non-empty set of numbers
Least(S) == CHOOSE i \in S : \A j \in S : i <= j

\* The first node of the traversal hs whose place is in idx, nil if none
FirstOf(hs, idx) == IF idx = {} THEN nil ELSE hs[Least(idx)]

\* The first element in traversal order whose key is not less than key
FirstNotLess(d, key) ==
    FirstOf(Handles(d),
            {i \in 1..Len(Handles(d)) :
               ~compare(KeyOf(d, Handles(d)[i]), key)})

\* The first element in traversal order whose key is greater than key
FirstGreater(d, key) ==
    FirstOf(Handles(d),
            {i \in 1..Len(Handles(d)) :
               compare(key, KeyOf(d, Handles(d)[i]))})

\* C27: lower_bound(key) returns the first element in traversal order whose
\* key is not less than key, upper_bound(key) the first whose key is
\* greater than key, and each returns the absent result exactly when there
\* is no such element.
Thm_C27 ==
    /\ last.op = "lower_bound" =>
           (Unchanged /\ last.node = FirstNotLess(pre, last.key))
    /\ last.op = "upper_bound" =>
           (Unchanged /\ last.node = FirstGreater(pre, last.key))

\* upper_bound of a key that two entries of a Multimap have found the
\* greater entry behind them
Wit_C27 ==
    /\ last.op = "upper_bound"
    /\ last.node # nil
    /\ Count(KeysOf(pre), {last.key}) = 2
    /\ pre.size = 3

Traversals ==
    {"for_each", "foreach_since_lower_bound", "foreach_since_upper_bound"}

\* The nodes of d a traversal called op with the key has to visit, in order
RangeOf(d, op, key) ==
    Only(Handles(d),
         {x \in Range(Handles(d)) :
            CASE op = "for_each" -> TRUE
              [] op = "foreach_since_lower_bound" -> ~compare(KeyOf(d, x), key)
              [] op = "foreach_since_upper_bound" -> compare(key, KeyOf(d, x))})

\* C28: with a callback that never stops, for_each visits every element
\* exactly once in ascending key order, foreach_since_lower_bound(k, cb)
\* exactly the elements whose key is not less than k and
\* foreach_since_upper_bound(k, cb) exactly those whose key is greater than
\* k, each once and in ascending order.
Thm_C28 ==
    (last.op \in Traversals /\ last.cond = {}) =>
        /\ Unchanged
        /\ ~last.ret
        /\ last.calls = RangeOf(pre, last.op, last.key)
        /\ Cardinality(Range(last.calls)) = Len(last.calls)
        /\ NonDecreasing(KeysIn(pre, last.calls))
        /\ kind = "Set" => StrictlyIncreasing(KeysIn(pre, last.calls))
        /\ last.op = "for_each" => Len(last.calls) = pre.size

\* foreach_since_lower_bound(k, cb) passed over a lesser element and
\* visited k and a greater one
Wit_C28 ==
    /\ last.op = "foreach_since_lower_bound"
    /\ last.cond = {}
    /\ Len(last.calls) >= 2
    /\ Len(last.calls) < pre.size
    /\ KeyOf(pre, last.calls[1]) = last.key

\* The places in the sequence of nodes hs at which the callback cb stops
StopsIn(d, hs, cb) == {i \in 1..Len(hs) : PayloadOf(d, hs[i]) \in cb}

\* What a traversal of the nodes hs has to call cb on and to return
StoppedAt(d, hs, cb, calls, ret) ==
    IF StopsIn(d, hs, cb) = {}
    THEN calls = hs /\ ~ret
    ELSE calls = SubSeq(hs, 1, Least(StopsIn(d, hs, cb))) /\ ret

\* C29: if the callback given to for_each, foreach_since_lower_bound or
\* foreach_since_upper_bound returns the stop signal at some element, it is
\* called for no later element; the elements visited are exactly the prefix
\* of the range that ends at the element where stop was returned.
Thm_C29 ==
    (last.op \in Traversals /\ last.cond # {}) =>
        /\ Unchanged
        /\ StoppedAt(pre, RangeOf(pre, last.op, last.key), last.cond,
                     last.calls, last.ret)

\* foreach_since_upper_bound was stopped at the second element of a range
\* of three
Wit_C29 ==
    /\ last.op = "foreach_since_upper_bound"
    /\ last.ret
    /\ Len(last.calls) = 2
    /\ Len(RangeOf(pre, last.op, last.key)) = 3

\* C30: front() returns the element with the smallest key and back() the
\* element with the largest key of a non-empty container, and both return
\* the absent result exactly when the container is empty.
Thm_C30 ==
    /\ last.op = "front" =>
           /\ Unchanged
           /\ last.node = nil <=> pre.size = 0
           /\ last.node # nil =>
                  /\ last.node = Handles(pre)[1]
                  /\ \A x \in Range(Handles(pre)) :
                        ~compare(KeyOf(pre, x), KeyOf(pre, last.node))
    /\ last.op = "back" =>
           /\ Unchanged
           /\ last.node = nil <=> pre.size = 0
           /\ last.node # nil =>
                  /\ last.node = Handles(pre)[Len(Handles(pre))]
                  /\ \A x \in Range(Handles(pre)) :
                        ~compare(KeyOf(pre, last.node), KeyOf(pre, x))

\* back() returned a node below the root of a container of four
Wit_C30 ==
    /\ last.op = "back"
    /\ last.node # nil
    /\ last.node # pre.root
    /\ pre.size = 4

---------------------------------------------------------------------------
(* Claims C31 to C40 *)

\* C31: inserting 5,3,8,1,4,7,9,2,6,0 one by one into an empty integer Set
\* gives size() == 10, the in-order traversal 0,1,...,9 and a tree whose
\* structural height is at most 5. Every one of the insertions takes place.
Thm_C31 ==
    scenario = ScenarioA =>
        /\ last.op = "insert" => (last.ret /\ dict.size = pre.size + 1)
        /\ (last.op = "insert" /\ last.key = ScenarioA[Len(ScenarioA)]) =>
               /\ dict.size = 10
               /\ KeysOf(dict) = [i \in 1..10 |-> i - 1]
               /\ Height(dict, dict.root) <= 5

\* The last value of scenario A has been inserted
Wit_C31 ==
    /\ scenario = ScenarioA
    /\ last.op = "insert"
    /\ last.key = 0
    /\ Len(Handles(dict)) = 10

\* The stored height of x is the one a node in its position gets: what seth
\* computes from its kids, or the 0 a leaf is constructed with
HeightInPlace(d, x) ==
    \/ HeightSet(d, x)
    \/ Kid(d, x, L) = nil /\ Kid(d, x, R) = nil /\ H(d, x) = 0

\* C32: Map.alter_key and Multimap.alter_key keep the tree invariants:
\* after the call the traversal is sorted, every node reachable from the
\* root has kids whose stored heights differ by at most 1, and the node that
\* was pulled out and put back carries a stored height that fits its new
\* position, not the one it had at its old position.
Cex_C32 ==
    (last.op = "alter_key" /\ last.ret /\ AllStoredBalanced(pre)) =>
        /\ NonDecreasing(KeysOf(dict))
        /\ AllStoredBalanced(dict)
        /\ HeightInPlace(dict, last.node)

\* d in which the link to node a, the root or a kid of a's parent, leads
\* to b
Relink(d, a, b) ==
    IF d.root = a THEN [d EXCEPT !.root = b]
    ELSE [d EXCEPT !.pool =
            [i \in DOMAIN d.pool |->
               IF i \in Range(Handles(d))
               THEN [d.pool[i] EXCEPT !.kid =
                       [j \in 1..2 |-> IF d.pool[i].kid[j] = a THEN b
                                       ELSE d.pool[i].kid[j]]]
               ELSE d.pool[i]]]

\* The node that has to take the place of e: its right kid when its left
\* kid is nil, else the rightmost node of its left subtree
Successor(d, e) ==
    IF Kid(d, e, L) = nil THEN Kid(d, e, R)
    ELSE dirmost(d, Kid(d, e, L), R)

\* The tree of d with e taken out as the claim describes it: r is
\* Successor(d, e). When e has a left kid, r first leaves its place to its
\* own left kid and then gets the kids of e.
Spliced(d, e, r) ==
    LET settle(d1) ==
            Relink([d1 EXCEPT !.pool[r].kid = d1.pool[e].kid], e, r)
    IN  IF Kid(d, e, L) = nil THEN Relink(d, e, r)
        ELSE settle(Relink(d, r, Kid(d, r, L)))

\* The lowest node below which the tree of d changes when e is taken out
Lowest(d, e, r) ==
    IF Kid(d, e, L) = nil
    THEN IF r # nil THEN r
         ELSE IF d.root = e THEN nil
         ELSE CHOOSE p \in Range(Handles(d)) : e \in {Kid(d, p, L), Kid(d, p, R)}
    ELSE IF r = Kid(d, e, L) THEN r
    ELSE CHOOSE p \in Range(Handles(d)) : Kid(d, p, R) = r

\* The nodes of d from the root down to q
PathTo(d, q) ==
    {x \in Range(Handles(d)) : q \in Range(InOrder(d, x))}

\* The heights of the nodes in path set anew from the lowest to the root
RECURSIVE SethAlong(_, _, _)
SethAlong(d, x, path) ==
    IF x = nil \/ x \notin path THEN d
    ELSE seth(SethAlong(SethAlong(d, Kid(d, x, L), path),
                        Kid(d, x, R), path), x)

\* What erase has to leave of d when no rotation is due: e spliced out, its
\* slot at the head of the free list, the heights on the path set anew
ErasedFrom(d, e, r) ==
    LET freed(s) ==
            [s EXCEPT !.pool[e] = FreeSlot(d.head), !.head = e,
                      !.size = d.size - 1]
        heights(s, q) == SethAlong(s, s.root, PathTo(s, q))
    IN  heights(freed(Spliced(d, e, r)), Lowest(d, e, r))

\* The node that is in pre and no more in dict
ErasedNode ==
    CHOOSE e \in Range(Handles(pre)) : e \notin Range(Handles(dict))

\* C33: erase(key) of a present key moves no payload: every surviving
\* element keeps its handle and its payload; the place of the erased node is
\* taken by its right kid when its left kid is nil and else by the rightmost
\* node of its left subtree; and exactly one slot, the erased node's, is
\* added to the free list. Where no node on the way up is out of balance the
\* tree is exactly the spliced one; rotations on the way up may move the
\* nodes further.
Thm_C33 ==
    LET spliced(e, exp) ==
            /\ KeyOf(pre, e) = last.key
            /\ Handles(dict) = Only(Handles(pre), Range(Handles(pre)) \ {e})
            /\ \A i \in Range(Handles(dict)) :
                  PayloadOf(dict, i) = PayloadOf(pre, i)
            /\ Occupied(dict) = Occupied(pre) \ {e}
            /\ FreeList(dict) = <<e>> \o FreeList(pre)
            /\ AllStoredBalanced(exp) => dict = exp
        at(e) == spliced(e, ErasedFrom(pre, e, Successor(pre, e)))
    IN  ErasedPresent => at(ErasedNode)

\* The root of a tree of four was erased and the rightmost node of its left
\* subtree, which is not its left kid, is the root now
Wit_C33 ==
    /\ ErasedPresent
    /\ pre.size = 4
    /\ pre.root \notin Range(Handles(dict))
    /\ Kid(pre, pre.root, L) # nil
    /\ dict.root # Kid(pre, pre.root, L)
    /\ dict.root = dirmost(pre, Kid(pre, pre.root, L), R)
    /\ Kid(dict, dict.root, L) = Kid(pre, pre.root, L)
    /\ Kid(dict, dict.root, R) = Kid(pre, pre.root, R)
    /\ dict = ErasedFrom(pre, pre.root, dict.root)

\* The call took a slot from the pool with allocate()
Allocated ==
    \/ last.op \in {"insert", "insert_failed"}
    \/ last.op = "index" /\ ~Present(pre, last.key)

\* The slot allocate() gave: the handle that is new in the tree, or, when the
\* slot was given back at once, the head of the free list
GivenSlot ==
    IF Range(Handles(dict)) \ Range(Handles(pre)) # {}
    THEN CHOOSE i \in Range(Handles(dict)) : i \notin Range(Handles(pre))
    ELSE dict.head

\* What the claim says capacity grows to, computed without a width
DoubledOrMax(capacity) ==
    IF capacity < (2^bits - 1) \div 2 THEN 2 * capacity ELSE 2^bits - 1

\* C34: allocate() changes capacity only when the free list is empty;
\* otherwise it returns the head of the free list, the most recently freed of
\* the free slots. When it grows, the new capacity is twice the old one if
\* the old one is below max_capacity / 2 and max_capacity otherwise, so
\* capacity strictly increases, never exceeds max_capacity = 2^bits - 1, the
\* slot given is the first of the new region, and no next-free link is
\* beyond capacity.
Thm_C34 ==
    /\ dict.capacity <= 2^bits - 1
    /\ dict.head <= dict.capacity
    /\ \A i \in 0..(dict.capacity - 1) :
          dict.pool[i].free => dict.pool[i].ptr \in (0..dict.capacity) \ {i}
    /\ (last.op \in {"insert", "index", "insert_failed", "erase"}) =>
          IF Allocated /\ FreeList(pre) = <<>> /\ pre.capacity # 2^bits - 1
          THEN /\ dict.capacity = DoubledOrMax(pre.capacity)
               /\ dict.capacity > pre.capacity
               /\ GivenSlot = pre.capacity
               /\ last.op = "insert_failed" \/ ~last.threw
               /\ Range(FreeList(dict)) \ (Occupied(pre) \cup {GivenSlot}) =
                      (pre.capacity + 1)..(dict.capacity - 1)
          ELSE /\ dict.capacity = pre.capacity
               /\ (Allocated /\ FreeList(pre) # <<>>) =>
                      /\ GivenSlot = Head(FreeList(pre))
                      /\ last.op = "insert_failed" \/ ~last.threw
                      /\ Range(FreeList(dict)) \ {GivenSlot} \subseteq
                             Range(FreeList(pre)) \cup Occupied(pre)

\* An insertion into a pool without a free slot doubled the capacity
Wit_C34 ==
    /\ last.op = "insert"
    /\ FreeList(pre) = <<>>
    /\ pre.capacity = 2
    /\ dict.capacity = 4
    /\ dict.size = pre.size + 1

\* An insertion took the slot that the erase before it had freed, which is
\* not the lowest free slot
Wit_C34_reuse ==
    /\ last.op = "insert"
    /\ Len(FreeList(pre)) >= 2
    /\ pre.head > FreeList(pre)[2]
    /\ pre.head \in Range(Handles(dict))
    /\ dict.capacity = pre.capacity

\* C36: during one filter(condition) call on a Set or Map the condition is
\* called exactly once on every element the container held at the start, in
\* ascending order of the keys, hence never on an element that was erased
\* before; as many elements are erased as satisfy the condition, and the
\* call ends.
Thm_C36 ==
    last.op = "filter" =>
        /\ last.calls = Payloads(pre)
        /\ StrictlyIncreasing([i \in 1..Len(last.calls) |-> last.calls[i][1]])
        /\ pre.size - dict.size = Count(last.calls, last.cond)
        /\ Len(Handles(pre)) - Len(Handles(dict)) = Count(last.calls, last.cond)
        /\ Range(FreeList(dict)) \ Range(FreeList(pre)) =
              {h \in Range(Handles(pre)) : PayloadOf(pre, h) \in last.cond}
        /\ ~last.threw

\* filter() erased the first and the last of three elements and kept the one
\* between them
Wit_C36 ==
    /\ last.op = "filter"
    /\ Len(last.calls) = 3
    /\ last.calls[1] \in last.cond
    /\ last.calls[2] \notin last.cond
    /\ last.calls[3] \in last.cond
    /\ dict.size = 1

\* The value at which following the next-free links from i ends
RECURSIVE FreeListEnd(_, _)
FreeListEnd(d, i) ==
    IF i >= d.capacity \/ ~d.pool[i].free THEN i
    ELSE FreeListEnd(d, d.pool[i].ptr)

\* C37: in every state the pool reaches by allocate, deallocate,
\* destruct_and_deallocate and reserve_for the slots [0, capacity) are
\* partitioned into occupied and free ones: the next-free links from head
\* visit every free slot exactly once and no occupied slot and end at the
\* value capacity; nil and every node reachable from root are occupied; and
\* allocate() gives a slot that is not occupied, neither 0 nor a node
\* reachable from root, in the present state and in the call that has
\* returned.
Thm_C37 ==
    LET fresh(a) ==
            a.ok => /\ a.res \notin Occupied(dict)
                    /\ a.res # nil
                    /\ a.res \notin Range(Handles(dict))
                    /\ a.res \in 1..(a.d.capacity - 1)
                    /\ FreeListExact([a.d EXCEPT !.pool[a.res].free = FALSE])
    IN  /\ DOMAIN dict.pool = 0..(dict.capacity - 1)
        /\ FreeListExact(dict)
        /\ FreeListEnd(dict, dict.head) = dict.capacity
        /\ nil \in Occupied(dict)
        /\ Range(Handles(dict)) \subseteq Occupied(dict)
        /\ fresh(allocate(dict))
        /\ (Allocated /\ (last.op = "insert_failed" \/ ~last.threw)) =>
               /\ GivenSlot \notin Occupied(pre)
               /\ GivenSlot \notin Range(Handles(pre)) \cup {nil}

\* A slot was given while a node lay between two free slots of the pool
Wit_C37 ==
    /\ Allocated
    /\ ~last.threw
    /\ \E i \in Range(FreeList(pre)), j \in Range(Handles(pre)),
            k \in Range(FreeList(pre)) : i < j /\ j < k
    /\ FreeList(dict) # <<>>
    /\ dict.size = pre.size + 1

\* The copy has the capacity of its source, nodes in the same slots with
\* the same key, value, kids and height, and the same slots free
SlotsCopied(from, to) ==
    /\ to.capacity = from.capacity
    /\ Occupied(to) = Occupied(from)
    /\ \A i \in Occupied(from) \ {nil} : to.pool[i] = from.pool[i]
    /\ Range(FreeList(to)) = Range(FreeList(from))
    /\ FreeListExact(to)
    /\ to.root = from.root
    /\ to.size = from.size

\* C38: a copy-constructed pool is slot for slot equivalent to its source:
\* the same capacity, the same occupied slots with equal key, kids and
\* height, the same free slots, and slot 0 a valid sentinel (height 0, both
\* kids 0) taken from slot 0 of the source.
Cex_C38 ==
    last.op = "copy" =>
        /\ SlotsCopied(pre, dict)
        /\ dict.pool[nil] = pre.pool[nil]
        /\ H(dict, nil) = 0
        /\ dict.pool[nil].kid = <<nil, nil>>

\* mid with the node new in the place of the node old: new has the kids and
\* the stored height of old, the link to old leads to new, the slot of old
\* is at the head of the free list, and nothing else differs
InPlaceOf(mid, new, old) ==
    LET freed(d) ==
            [d EXCEPT !.pool[old] = FreeSlot(mid.head), !.head = old,
                      !.size = mid.size - 1]
        given(d) == Relink(d, old, new)
    IN  freed(given([mid EXCEPT !.pool[new].kid = mid.pool[old].kid,
                                !.pool[new].h = mid.pool[old].h]))

\* Map.insert found its key in the map / Map.alter_key found its new key
MapReplacedByInsert ==
    MapInserted /\ ~last.threw /\ Present(pre, last.key)
MapReplacedByAlterKey ==
    MapAltered /\ last.ret /\ last.ret2

\* C39: when Map.insert / emplace (or alter_key with a collision) replaces
\* an entry, the new node takes exactly the place of the old one: it gets
\* the two kids and the stored height of the old node, the link that led to
\* the old handle leads to the new one, the old handle is destructed and
\* back on the free list, and no other node's kids or stored height change.
\* For alter_key the change is that from the dictionary out of which the
\* node has been pulled.
Cex_C39 ==
    LET inserted(a) ==
            dict = InPlaceOf(a.d, a.res, find(pre, last.key))
        rekeyed(mid, x) ==
            dict = InPlaceOf(mid, x, find(mid, last.key2))
        pulled(p) ==
            rekeyed([p.d EXCEPT !.pool[p.res].key = last.key2], p.res)
    IN  /\ MapReplacedByInsert =>
               inserted(allocate_node(pre, last.key, last.val))
        /\ MapReplacedByAlterKey => pulled(pull_out(pre, last.key))

\* C40: reserve_for is idempotent and does nothing when there is room:
\* whenever capacity() >= n, reserve_for(n) leaves the capacity (and the
\* pool) as it is, so reserve_for(n) called again right after a successful
\* reserve_for(n) changes nothing.
Cex_C40 ==
    LET nothing(again) == again.ok /\ again.d = dict
    IN  /\ (last.op = "reserve" /\ pre.capacity >= last.key) =>
               ~last.threw /\ dict = pre
        /\ (last.op = "reserve" /\ ~last.threw) =>
               nothing(reserve_for(dict, last.key))

\* reserve_for(n) with n below the capacity does nothing
ReserveBelowCapacity ==
    (last.op = "reserve" /\ pre.capacity > last.key) =>
        ~last.threw /\ dict = pre

---------------------------------------------------------------------------
(* Keys that are altered: a Map is filled in a given order and its keys are
   then altered at will *)

MaxKeyAlter == 6

ScenarioB == <<2, 6, 5, 3, 4>>

InitAlter ==
    /\ dict = NewDictionary(1)
    /\ pre = dict
    /\ last = NoCall
    /\ kind = "Map"
    /\ trivial = FALSE
    /\ other = NoOther
    /\ bits = IndexBits
    /\ scenario = ScenarioB

\* The insertion the scenario has for a Map of this size
AlterInsert ==
    /\ dict.size < Len(scenario)
    /\ Does("insert", scenario[dict.size + 1], 0, 0, {},
            Map_emplace(dict, scenario[dict.size + 1], 0))

AlterKey ==
    /\ dict.size = Len(scenario)
    /\ \E old_key \in 1..MaxKeyAlter, new_key \in 1..MaxKeyAlter :
          Does("alter_key", old_key, 0, new_key, {},
               Map_alter_key(dict, old_key, new_key))

NextAlter == Return \/ AlterInsert \/ AlterKey

SpecAlter == InitAlter /\ [][NextAlter]_vars

\* C35: each time rebalance_and_seth(x) runs, the stored heights of the kids
\* of x differ by at most 3: its assertion -1 <= b and b <= 1 never fails
Cex_C35 == ~dict.failed

====
